---- MODULE Spec2Model ----
(***************************************************************************)
(* The batched 2D renderer of kaboom (src/src/gfx.ts): the vertex/index    *)
(* queue, the flush engine, the frame lifecycle and the quad emitter.      *)
(*                                                                         *)
(* JavaScript numbers are modelled as exact rationals <<n, d>> (d > 0, in  *)
(* lowest terms).  Object references (textures, programs, uniform          *)
(* mappings) are modelled as names; the contents of the caller's uniform   *)
(* mappings live in `heap`, so that a reference and the value behind it    *)
(* are different things, as they are in the program.                       *)
(***************************************************************************)
EXTENDS Integers, Sequences, FiniteSets, TLC

VARIABLES
    gfx,        \* the GfxCtx record of gfxInit (gfx.ts:17-33)
    gl,         \* the WebGL context: buffers, viewport, draws since gl.clear
    gconf,      \* the GfxConf the renderer was created with
    heap,       \* contents of the caller-owned uniform mappings
    emitted,    \* history: the drawRaw calls of the current frame
    phase,      \* history: "idle" | "active" (the caller's frame bracket)
    frames,     \* history: number of frameStart calls made by the caller
    mutations,  \* history: number of in-place uniform updates by the caller
    call        \* history: the last call of the callers that keep a record of
                \* their calls (operation, arguments, value returned; for
                \* popTransform the depth of the stack it found)

vars == <<gfx, gl, gconf, heap, emitted, phase, frames, mutations, call>>

-----------------------------------------------------------------------------
(* Bounds of the model *)

MaxEmits == 3          \* drawRaw calls per frame in Spec
MaxFrames == 1         \* caller frames after initialization in Spec
MaxMutations == 1      \* in-place uniform updates in Spec
MaxFillEmits == 1823   \* drawRaw calls per frame in SpecFill
MaxTiles == 1819       \* rectangles of the tile map in SpecFill
MaxStackFrames == 2    \* caller frames after initialization in SpecFrame
MaxStackEmits == 2     \* drawRaw calls per frame in SpecFrame
MaxDepth == 1          \* pushTransform calls per frame in SpecFrame
MaxShapeEmits == 6     \* drawRaw calls per frame in SpecShapes
MaxTextLen == 3        \* characters of a string in SpecText
MaxCharsetLen == 3     \* characters of a character-set string in SpecText

-----------------------------------------------------------------------------
(* Program constants, gfx.ts:94-97 *)

DEF_ORIGIN == "topleft"
STRIDE == 9
QUEUE_COUNT == 65536
BG_GRID_SIZE == 64

-----------------------------------------------------------------------------
(* Numbers *)

Abs(n) == IF n < 0 THEN -n ELSE n

RECURSIVE GCD(_, _)
GCD(a, b) == IF b = 0 THEN a ELSE GCD(b, a % b)

RNorm(n, d) ==
    IF d = 1 THEN <<n, 1>>
    ELSE IF n = 0 THEN <<0, 1>>
    ELSE LET s == IF d < 0 THEN -1 ELSE 1
             g == GCD(Abs(n), Abs(d))
         IN  <<(s * n) \div g, (s * d) \div g>>

R(n) == <<n, 1>>
RAdd(a, b) == IF a[2] = b[2] THEN RNorm(a[1] + b[1], a[2])
              ELSE RNorm(a[1] * b[2] + b[1] * a[2], a[2] * b[2])
RNeg(a) == <<-a[1], a[2]>>
RSub(a, b) == RAdd(a, RNeg(b))
RMul(a, b) == IF a[1] = 0 \/ b[1] = 0 THEN <<0, 1>>
              ELSE RNorm(a[1] * b[1], a[2] * b[2])
RDiv(a, b) == RNorm(a[1] * b[2], a[2] * b[1])
RLeq(a, b) == a[1] * b[2] <= b[1] * a[2]

-----------------------------------------------------------------------------
(* math.ts: vectors, quads, colours and the 4x4 matrix.  math.ts is not    *)
(* part of the sources at hand; these follow the types of types.ts and the *)
(* "standard 4x4 matrix multiplication" of the design.                     *)

vec2(x, y) == [x |-> x, y |-> y]
vec3(x, y, z) == [x |-> x, y |-> y, z |-> z]
quad(x, y, w, h) == [x |-> x, y |-> y, w |-> w, h |-> h]
rgba(r, g, b, a) == [r |-> r, g |-> g, b |-> b, a |-> a]

Vec2Add(p, q) == vec2(RAdd(p.x, q.x), RAdd(p.y, q.y))
Vec2Sub(p, q) == vec2(RSub(p.x, q.x), RSub(p.y, q.y))
Vec2Scale(p, q) == vec2(RMul(p.x, q.x), RMul(p.y, q.y))
Vec2ScaleN(p, s) == vec2(RMul(p.x, s), RMul(p.y, s))

\* mat4(): the identity, column-major
mat4 == << R(1), R(0), R(0), R(0),
           R(0), R(1), R(0), R(0),
           R(0), R(0), R(1), R(0),
           R(0), R(0), R(0), R(1) >>

Mat4Clone(m) == [k \in 1..16 |-> m[k]]

\* out[i * 4 + j] = sum over k of this[k * 4 + j] * other[i * 4 + k]
Mat4Mult(this, other) ==
    [n \in 1..16 |->
        LET i == (n - 1) \div 4
            j == (n - 1) % 4
        IN  RAdd(RAdd(RMul(this[0 * 4 + j + 1], other[i * 4 + 1]),
                      RMul(this[1 * 4 + j + 1], other[i * 4 + 2])),
                 RAdd(RMul(this[2 * 4 + j + 1], other[i * 4 + 3]),
                      RMul(this[3 * 4 + j + 1], other[i * 4 + 4])))]

Mat4Translate(m, p) ==
    Mat4Mult(m, << R(1), R(0), R(0), R(0),
                   R(0), R(1), R(0), R(0),
                   R(0), R(0), R(1), R(0),
                   p.x,  p.y,  R(0), R(1) >>)

Mat4Scale(m, s) ==
    Mat4Mult(m, << s.x,  R(0), R(0), R(0),
                   R(0), s.y,  R(0), R(0),
                   R(0), R(0), R(1), R(0),
                   R(0), R(0), R(0), R(1) >>)

\* Angles are counted in quarter turns (a = q * PI / 2), the only angles
\* whose sine and cosine are rational.
Cos(q) == CASE q % 4 = 0 -> R(1)  [] q % 4 = 1 -> R(0)
            [] q % 4 = 2 -> R(-1) [] OTHER -> R(0)
Sin(q) == CASE q % 4 = 0 -> R(0)  [] q % 4 = 1 -> R(1)
            [] q % 4 = 2 -> R(0)  [] OTHER -> R(-1)

Mat4RotateZ(m, a) ==
    Mat4Mult(m, << Cos(a),  RNeg(Sin(a)), R(0), R(0),
                   Sin(a),  Cos(a),       R(0), R(0),
                   R(0),    R(0),         R(1), R(0),
                   R(0),    R(0),         R(0), R(1) >>)

Mat4RotateX(m, a) ==
    Mat4Mult(m, << R(1), R(0),   R(0),         R(0),
                   R(0), Cos(a), RNeg(Sin(a)), R(0),
                   R(0), Sin(a), Cos(a),       R(0),
                   R(0), R(0),   R(0),         R(1) >>)

Mat4RotateY(m, a) ==
    Mat4Mult(m, << Cos(a), R(0), RNeg(Sin(a)), R(0),
                   R(0),   R(1), R(0),         R(0),
                   Sin(a), R(0), Cos(a),       R(0),
                   R(0),   R(0), R(0),         R(1) >>)

\* p.dist(q) and p.angle(q) = atan2(p.y - q.y, p.x - q.x), the angle in
\* quarter turns, for the segments the model draws: those along an axis
Vec2Dist(p, q) ==
    LET dx == RSub(p.x, q.x)
        dy == RSub(p.y, q.y)
    IN  IF dx[1] = 0 THEN <<Abs(dy[1]), dy[2]>> ELSE <<Abs(dx[1]), dx[2]>>

Vec2Angle(p, q) ==
    LET dx == RSub(p.x, q.x)
        dy == RSub(p.y, q.y)
    IN  CASE dy[1] = 0 /\ dx[1] >= 0 -> 0
          [] dy[1] = 0 /\ dx[1] < 0 -> 2
          [] dy[1] > 0 -> 1
          [] OTHER -> -1

\* p.x * m[0] + p.y * m[4] + m[12],  p.x * m[1] + p.y * m[5] + m[13]
Mat4MultVec2(m, p) ==
    vec2(RAdd(RAdd(RMul(p.x, m[1]), RMul(p.y, m[5])), m[13]),
         RAdd(RAdd(RMul(p.x, m[2]), RMul(p.y, m[6])), m[14]))

-----------------------------------------------------------------------------
(* utils.ts: deepEq on uniform mappings.  A mapping is a function from the *)
(* uniform names to a value or Absent; utils.ts is not part of the sources *)
(* at hand, so this is the deep structural equality the design describes.  *)

Absent == <<>>
UniformNames == {"u_a", "u_b"}

Keys(u) == {k \in UniformNames : u[k] # Absent}

deepEq(o1, o2) ==
    /\ Keys(o1) = Keys(o2)
    /\ \A k \in Keys(o1) : o1[k] = o2[k]

EmptyUniform == [k \in UniformNames |-> Absent]

-----------------------------------------------------------------------------
(* Object references *)

\* textures: the two the renderer makes (gfx.ts:186, 208) and the caller's
EmptyTex == "emptyTex"
BgTex == "bgTex"
CallerTextures == {"texA"}

TexWidth(t) == CASE t = EmptyTex -> 1 [] t = BgTex -> 2 [] OTHER -> 4
TexHeight(t) == CASE t = EmptyTex -> 1 [] t = BgTex -> 2 [] OTHER -> 2

\* programs: the default one (gfx.ts:185) and the caller's
DefProg == "defProg"
CallerPrograms == {"progA"}

\* uniform mappings: the caller's objects, and the object a `= {}` default
\* parameter or literal creates, which nobody else can reach or change
Refs == {"o1", "o2"}
FreshObj == "fresh"

U0 == [k \in UniformNames |-> IF k = "u_a" THEN <<0, 1>> ELSE Absent]
U1 == [k \in UniformNames |-> IF k = "u_a" THEN <<1, 1>> ELSE Absent]
UniformValues == {U0, U1}

Deref(h, r) == IF r = FreshObj THEN EmptyUniform ELSE h[r]

\* a reference that is not set
Null == "null"

\* an optional field of a configuration object
Has(conf, f) == f \in DOMAIN conf
NoConf == [f \in {} |-> 0]

\* { ...conf, ...over }
Spread(conf, over) ==
    [f \in DOMAIN conf \cup DOMAIN over |->
        IF f \in DOMAIN over THEN over[f] ELSE conf[f]]

-----------------------------------------------------------------------------
(* The renderer.  Its functions read and write the GfxCtx, the GL context  *)
(* and, by reference, the caller's uniform mappings; they are written as   *)
(* operators on the record World of everything they can reach.             *)

World == [gfx |-> gfx, gl |-> gl, gconf |-> gconf, heap |-> heap,
          emitted |-> emitted]

\* gfx.ts:805
scale(w) == IF Has(w.gconf, "scale") THEN w.gconf.scale ELSE R(1)

\* gfx.ts:796
width(w) == RDiv(R(w.gl.drawingBufferWidth), scale(w))

\* gfx.ts:801
height(w) == RDiv(R(w.gl.drawingBufferHeight), scale(w))

\* toNDC, had it put the pixel (0, 0) in the middle of the viewport
toNDCCentred(w, pt) ==
    vec2(RMul(RDiv(pt.x, width(w)), R(2)),
         RMul(RDiv(RNeg(pt.y), height(w)), R(2)))

\* gfx.ts:512
toNDC(w, pt) ==
    vec2(RSub(RMul(RDiv(pt.x, width(w)), R(2)), R(1)),
         RAdd(RMul(RDiv(RNeg(pt.y), height(w)), R(2)), R(1)))

\* ns[lo] + ... + ns[hi], by halves
RECURSIVE SumRange(_, _, _)
SumRange(ns, lo, hi) ==
    IF lo > hi THEN 0
    ELSE IF lo = hi THEN ns[lo]
    ELSE LET mid == (lo + hi) \div 2
         IN  SumRange(ns, lo, mid) + SumRange(ns, mid + 1, hi)

SumTo(ns, n) == SumRange(ns, 1, n)

\* A queue (number[]) is held as its length property and the runs of
\* numbers pushed onto it, in the order pushed: the array's elements are
\* the concatenation of the runs.

\* []
EmptyQueue == [runs |-> <<>>, length |-> 0]

\* queue.length
QLen(queue) == queue.length

\* the runs lo..hi as one list, by halves
RECURSIVE QRange(_, _, _)
QRange(runs, lo, hi) ==
    IF lo > hi THEN <<>>
    ELSE IF lo = hi THEN runs[lo]
    ELSE LET mid == (lo + hi) \div 2
         IN  QRange(runs, lo, mid) \o QRange(runs, mid + 1, hi)

\* the elements of the array, in order
QFlat(queue) == QRange(queue.runs, 1, Len(queue.runs))

\* new Uint16Array(iqueue)
Uint16(i) == i % 65536

\* flush, had it left the draw-call counter alone
flushUncounted(w) ==
    IF \/ w.gfx.curTex = Null
       \/ w.gfx.curProg = Null
       \/ QLen(w.gfx.vqueue) = 0
       \/ QLen(w.gfx.iqueue) = 0
    THEN w
    ELSE [w EXCEPT
            !.gl.draws = Append(@,
                [ prog |-> w.gfx.curProg,
                  tex |-> w.gfx.curTex,
                  uniform |-> Deref(w.heap, w.gfx.curUniform),
                  vdata |-> w.gfx.vqueue,
                  idata |-> [w.gfx.iqueue EXCEPT !.runs =
                                [k \in 1..Len(@) |->
                                    [n \in 1..Len(@[k]) |-> Uint16(@[k][n])]]],
                  count |-> QLen(w.gfx.iqueue) ]),
            !.gfx.iqueue = EmptyQueue,
            !.gfx.vqueue = EmptyQueue]

\* gfx.ts:446
flush(w) ==
    IF \/ w.gfx.curTex = Null
       \/ w.gfx.curProg = Null
       \/ QLen(w.gfx.vqueue) = 0
       \/ QLen(w.gfx.iqueue) = 0
    THEN w
    ELSE [w EXCEPT
            !.gl.draws = Append(@,
                [ prog |-> w.gfx.curProg,
                  tex |-> w.gfx.curTex,
                  uniform |-> Deref(w.heap, w.gfx.curUniform),
                  vdata |-> w.gfx.vqueue,
                  idata |-> [w.gfx.iqueue EXCEPT !.runs =
                                [k \in 1..Len(@) |->
                                    [n \in 1..Len(@[k]) |-> Uint16(@[k][n])]]],
                  count |-> QLen(w.gfx.iqueue) ]),
            !.gfx.iqueue = EmptyQueue,
            !.gfx.vqueue = EmptyQueue,
            !.gfx.drawCalls = @ + 1]

\* StateChanged, had the texture been left out of the comparison
StateChangedIgnoringTexture(w, tex, prog, uniform) ==
    \/ prog # w.gfx.curProg
    \/ ~deepEq(Deref(w.heap, w.gfx.curUniform), Deref(w.heap, uniform))

\* gfx.ts:411-417
StateChanged(w, tex, prog, uniform) ==
    \/ tex # w.gfx.curTex
    \/ prog # w.gfx.curProg
    \/ ~deepEq(Deref(w.heap, w.gfx.curUniform), Deref(w.heap, uniform))

\* Overflows, had the lengths been compared before adding the new geometry
OverflowsAfterTheFact(w, nverts, nindices) ==
    \/ QLen(w.gfx.vqueue) > QUEUE_COUNT
    \/ QLen(w.gfx.iqueue) > QUEUE_COUNT

\* Overflows, had the vertex queue been left out
OverflowsIndexQueueOnly(w, nverts, nindices) ==
    QLen(w.gfx.iqueue) + nindices > QUEUE_COUNT

\* gfx.ts:415-416
Overflows(w, nverts, nindices) ==
    \/ QLen(w.gfx.vqueue) + nverts * STRIDE > QUEUE_COUNT
    \/ QLen(w.gfx.iqueue) + nindices > QUEUE_COUNT

\* gfx.ts:433-437
VertexFloats(w, v) ==
    LET pt == toNDC(w, Mat4MultVec2(w.gfx.transform, vec2(v.pos.x, v.pos.y)))
    IN  << pt.x, pt.y, v.pos.z,
           v.uv.x, v.uv.y,
           v.color.r, v.color.g, v.color.b, v.color.a >>

\* .flat()
RECURSIVE Flat(_)
Flat(ss) == IF ss = <<>> THEN <<>> ELSE Head(ss) \o Flat(Tail(ss))

\* IndexBase, had the queue length not been divided by the stride
IndexBaseInFloats(w) == QLen(w.gfx.vqueue)

\* gfx.ts:427: the vertex count the indices are offset by.  The code divides
\* as numbers; the length is a multiple of STRIDE (C7), so the quotient is
\* the whole number it is here.
IndexBase(w) == QLen(w.gfx.vqueue) \div STRIDE

\* Push, had it been unshift
PushFront(queue, items) ==
    [runs |-> <<items>> \o queue.runs, length |-> queue.length + Len(items)]

\* gfx.ts:441-442: forEach ... push
Push(queue, items) ==
    [runs |-> Append(queue.runs, items), length |-> queue.length + Len(items)]

\* drawRaw, had the indices been queued before the flush and the vertices
\* after it
drawRawSplit(w, verts, indices, conf) ==
    LET tex == IF Has(conf, "tex") THEN conf.tex ELSE w.gfx.defTex
        prog == IF Has(conf, "prog") THEN conf.prog ELSE w.gfx.defProg
        uniform == IF Has(conf, "uniform") THEN conf.uniform ELSE FreshObj
        base == IndexBase(w)
        nIndices == [k \in 1..Len(indices) |-> indices[k] + base]
        w0 == [w EXCEPT !.gfx.iqueue = Push(@, nIndices)]
        w1 == IF \/ StateChanged(w, tex, prog, uniform)
                 \/ Overflows(w, Len(verts), Len(indices))
              THEN flush(w0) ELSE w0
        nVerts == Flat([k \in 1..Len(verts) |-> VertexFloats(w1, verts[k])])
    IN  [w1 EXCEPT
            !.gfx.curTex = tex,
            !.gfx.curProg = prog,
            !.gfx.curUniform = uniform,
            !.gfx.vqueue = Push(@, nVerts),
            !.emitted = Append(@,
                [ tex |-> tex, prog |-> prog,
                  uniform |-> Deref(w.heap, uniform),
                  indices |-> indices,
                  floats |-> nVerts,
                  base |-> base,
                  flushed |-> w1.gfx.drawCalls # w.gfx.drawCalls,
                  vqueued |-> QLen(w.gfx.vqueue),
                  iqueued |-> QLen(w.gfx.iqueue),
                  batch |-> Len(w1.gl.draws) + 1 ])]

\* drawRaw, had a full queue been emptied without being drawn
drawRawDropping(w, verts, indices, conf) ==
    LET tex == IF Has(conf, "tex") THEN conf.tex ELSE w.gfx.defTex
        prog == IF Has(conf, "prog") THEN conf.prog ELSE w.gfx.defProg
        uniform == IF Has(conf, "uniform") THEN conf.uniform ELSE FreshObj
        w1 == IF StateChanged(w, tex, prog, uniform) THEN flush(w)
              ELSE IF Overflows(w, Len(verts), Len(indices))
                   THEN [w EXCEPT !.gfx.iqueue = EmptyQueue,
                                  !.gfx.vqueue = EmptyQueue]
                   ELSE w
        base == IndexBase(w1)
        nIndices == [k \in 1..Len(indices) |-> indices[k] + base]
        nVerts == Flat([k \in 1..Len(verts) |-> VertexFloats(w1, verts[k])])
    IN  [w1 EXCEPT
            !.gfx.curTex = tex,
            !.gfx.curProg = prog,
            !.gfx.curUniform = uniform,
            !.gfx.iqueue = Push(@, nIndices),
            !.gfx.vqueue = Push(@, nVerts),
            !.emitted = Append(@,
                [ tex |-> tex, prog |-> prog,
                  uniform |-> Deref(w.heap, uniform),
                  indices |-> indices,
                  floats |-> nVerts,
                  base |-> base,
                  flushed |-> w1.gfx.drawCalls # w.gfx.drawCalls,
                  vqueued |-> QLen(w.gfx.vqueue),
                  iqueued |-> QLen(w.gfx.iqueue),
                  batch |-> Len(w1.gl.draws) + 1 ])]

\* gfx.ts:399.  conf carries the optional tex, prog and uniform arguments.
\* The entry added to `emitted` is history: what the call was given, what
\* it computed, and what it found (floats and indices queued, draw made).
drawRaw(w, verts, indices, conf) ==
    LET tex == IF Has(conf, "tex") THEN conf.tex ELSE w.gfx.defTex
        prog == IF Has(conf, "prog") THEN conf.prog ELSE w.gfx.defProg
        uniform == IF Has(conf, "uniform") THEN conf.uniform ELSE FreshObj
        w1 == IF \/ StateChanged(w, tex, prog, uniform)
                 \/ Overflows(w, Len(verts), Len(indices))
              THEN flush(w) ELSE w
        base == IndexBase(w1)
        nIndices == [k \in 1..Len(indices) |-> indices[k] + base]
        nVerts == Flat([k \in 1..Len(verts) |-> VertexFloats(w1, verts[k])])
    IN  [w1 EXCEPT
            !.gfx.curTex = tex,
            !.gfx.curProg = prog,
            !.gfx.curUniform = uniform,
            !.gfx.iqueue = Push(@, nIndices),
            !.gfx.vqueue = Push(@, nVerts),
            !.emitted = Append(@,
                [ tex |-> tex, prog |-> prog,
                  uniform |-> Deref(w.heap, uniform),
                  indices |-> indices,
                  floats |-> nVerts,
                  base |-> base,
                  flushed |-> w1.gfx.drawCalls # w.gfx.drawCalls,
                  vqueued |-> QLen(w.gfx.vqueue),
                  iqueued |-> QLen(w.gfx.iqueue),
                  batch |-> Len(w1.gl.draws) + 1 ])]

\* pushMatrix, had it composed m onto the active transform
pushMatrixComposing(w, m) ==
    [w EXCEPT !.gfx.transform = Mat4Mult(@, m)]

\* gfx.ts:520
pushMatrix(w, m) == [w EXCEPT !.gfx.transform = Mat4Clone(m)]

\* gfx.ts:524
pushTranslate(w, p) ==
    IF p.x = R(0) /\ p.y = R(0) THEN w
    ELSE [w EXCEPT !.gfx.transform = Mat4Translate(@, p)]

\* gfx.ts:531
pushScale(w, p) ==
    IF p.x = R(1) /\ p.y = R(1) THEN w
    ELSE [w EXCEPT !.gfx.transform = Mat4Scale(@, p)]

\* gfx.ts:538
pushRotateX(w, a) ==
    IF a = 0 THEN w
    ELSE [w EXCEPT !.gfx.transform = Mat4RotateX(@, a)]

\* gfx.ts:545
pushRotateY(w, a) ==
    IF a = 0 THEN w
    ELSE [w EXCEPT !.gfx.transform = Mat4RotateY(@, a)]

\* gfx.ts:552
pushRotateZ(w, a) ==
    IF a = 0 THEN w
    ELSE [w EXCEPT !.gfx.transform = Mat4RotateZ(@, a)]

\* gfx.ts:559
pushTransform(w) ==
    [w EXCEPT !.gfx.transformStack = Append(@, Mat4Clone(w.gfx.transform))]

\* popTransform, had it left the restored matrix on the stack
popTransformPeek(w) ==
    IF Len(w.gfx.transformStack) > 0
    THEN [w EXCEPT
            !.gfx.transform = w.gfx.transformStack[Len(w.gfx.transformStack)]]
    ELSE w

\* popTransform, had it popped without looking at the length: pop() of an
\* empty array gives undefined
popTransformUnguarded(w) ==
    [w EXCEPT
        !.gfx.transform = IF Len(w.gfx.transformStack) > 0
                          THEN w.gfx.transformStack[Len(w.gfx.transformStack)]
                          ELSE Absent,
        !.gfx.transformStack = SubSeq(@, 1, Len(@) - 1)]

\* gfx.ts:563
popTransform(w) ==
    IF Len(w.gfx.transformStack) > 0
    THEN [w EXCEPT
            !.gfx.transform = w.gfx.transformStack[Len(w.gfx.transformStack)],
            !.gfx.transformStack = SubSeq(@, 1, Len(@) - 1)]
    ELSE w

\* gfx.ts:158
originPt(orig) ==
    CASE orig = "topleft"  -> vec2(R(-1), R(-1))
      [] orig = "top"      -> vec2(R(0), R(-1))
      [] orig = "topright" -> vec2(R(1), R(-1))
      [] orig = "left"     -> vec2(R(-1), R(0))
      [] orig = "center"   -> vec2(R(0), R(0))
      [] orig = "right"    -> vec2(R(1), R(0))
      [] orig = "botleft"  -> vec2(R(-1), R(1))
      [] orig = "bot"      -> vec2(R(0), R(1))
      [] orig = "botright" -> vec2(R(1), R(1))

Origins == {"topleft", "top", "topright", "left", "center", "right",
            "botleft", "bot", "botright"}

\* the index list of a quad, gfx.ts:611
QuadIndices == <<0, 1, 3, 1, 2, 3>>

\* the four corners drawQuad hands to drawRaw, gfx.ts:590-610
QuadVerts(w, h, z, q, color) ==
    LET hw == RDiv(w, R(2))
        hh == RDiv(h, R(2))
    IN  << [ pos |-> vec3(RNeg(hw), hh, z),
             uv |-> vec2(q.x, RAdd(q.y, q.h)), color |-> color ],
           [ pos |-> vec3(RNeg(hw), RNeg(hh), z),
             uv |-> vec2(q.x, q.y), color |-> color ],
           [ pos |-> vec3(hw, RNeg(hh), z),
             uv |-> vec2(RAdd(q.x, q.w), q.y), color |-> color ],
           [ pos |-> vec3(hw, hh, z),
             uv |-> vec2(RAdd(q.x, q.w), RAdd(q.y, q.h)), color |-> color ] >>

\* drawQuad, had it not popped the transform it pushed
drawQuadWithoutPop(w0, conf) ==
    LET w == IF Has(conf, "width") THEN conf.width ELSE R(0)
        h == IF Has(conf, "height") THEN conf.height ELSE R(0)
        pos == IF Has(conf, "pos") THEN conf.pos ELSE vec2(R(0), R(0))
        origin == originPt(IF Has(conf, "origin") THEN conf.origin
                           ELSE DEF_ORIGIN)
        offset == Vec2Scale(origin, Vec2ScaleN(vec2(w, h), <<-1, 2>>))
        scl == IF Has(conf, "scale") THEN conf.scale ELSE vec2(R(1), R(1))
        rot == IF Has(conf, "rot") THEN conf.rot ELSE 0
        q == IF Has(conf, "quad") THEN conf.quad
             ELSE quad(R(0), R(0), R(1), R(1))
        z == RSub(R(1), IF Has(conf, "z") THEN conf.z ELSE R(0))
        color == IF Has(conf, "color") THEN conf.color
                 ELSE rgba(R(1), R(1), R(1), R(1))
        w1 == pushTransform(w0)
        w2 == pushTranslate(w1, pos)
        w3 == pushScale(w2, scl)
        w4 == pushRotateZ(w3, rot)
        w5 == pushTranslate(w4, offset)
        w6 == drawRaw(w5, QuadVerts(w, h, z, q, color), QuadIndices, conf)
    IN  w6

\* drawQuad, had it moved to the anchor offset before scaling
drawQuadOffsetUnscaled(w0, conf) ==
    LET w == IF Has(conf, "width") THEN conf.width ELSE R(0)
        h == IF Has(conf, "height") THEN conf.height ELSE R(0)
        pos == IF Has(conf, "pos") THEN conf.pos ELSE vec2(R(0), R(0))
        origin == originPt(IF Has(conf, "origin") THEN conf.origin
                           ELSE DEF_ORIGIN)
        offset == Vec2Scale(origin, Vec2ScaleN(vec2(w, h), <<-1, 2>>))
        scl == IF Has(conf, "scale") THEN conf.scale ELSE vec2(R(1), R(1))
        rot == IF Has(conf, "rot") THEN conf.rot ELSE 0
        q == IF Has(conf, "quad") THEN conf.quad
             ELSE quad(R(0), R(0), R(1), R(1))
        z == RSub(R(1), IF Has(conf, "z") THEN conf.z ELSE R(0))
        color == IF Has(conf, "color") THEN conf.color
                 ELSE rgba(R(1), R(1), R(1), R(1))
        w1 == pushTransform(w0)
        w2 == pushTranslate(w1, pos)
        w3 == pushTranslate(w2, offset)
        w4 == pushScale(w3, scl)
        w5 == pushRotateZ(w4, rot)
        w6 == drawRaw(w5, QuadVerts(w, h, z, q, color), QuadIndices, conf)
    IN  popTransform(w6)

\* gfx.ts:571
drawQuad(w0, conf) ==
    LET w == IF Has(conf, "width") THEN conf.width ELSE R(0)
        h == IF Has(conf, "height") THEN conf.height ELSE R(0)
        pos == IF Has(conf, "pos") THEN conf.pos ELSE vec2(R(0), R(0))
        origin == originPt(IF Has(conf, "origin") THEN conf.origin
                           ELSE DEF_ORIGIN)
        offset == Vec2Scale(origin, Vec2ScaleN(vec2(w, h), <<-1, 2>>))
        scl == IF Has(conf, "scale") THEN conf.scale ELSE vec2(R(1), R(1))
        rot == IF Has(conf, "rot") THEN conf.rot ELSE 0
        q == IF Has(conf, "quad") THEN conf.quad
             ELSE quad(R(0), R(0), R(1), R(1))
        z == RSub(R(1), IF Has(conf, "z") THEN conf.z ELSE R(0))
        color == IF Has(conf, "color") THEN conf.color
                 ELSE rgba(R(1), R(1), R(1), R(1))
        w1 == pushTransform(w0)
        w2 == pushTranslate(w1, pos)
        w3 == pushScale(w2, scl)
        w4 == pushRotateZ(w3, rot)
        w5 == pushTranslate(w4, offset)
        w6 == drawRaw(w5, QuadVerts(w, h, z, q, color), QuadIndices, conf)
    IN  popTransform(w6)

\* gfx.ts:617
drawTexture(w0, tex, conf) ==
    LET q == IF Has(conf, "quad") THEN conf.quad
             ELSE quad(R(0), R(0), R(1), R(1))
        w == RMul(R(TexWidth(tex)), q.w)
        h == RMul(R(TexHeight(tex)), q.h)
    IN  drawQuad(w0, Spread(conf,
            [tex |-> tex, quad |-> q, width |-> w, height |-> h]))

\* gfx.ts:636
drawRect(w0, pos, w, h, conf) ==
    drawQuad(w0, Spread(conf, [pos |-> pos, width |-> w, height |-> h]))

\* frameStart, had it left the draw-call counter alone
frameStartKeepingCount(w0) ==
    LET w1 == [w0 EXCEPT !.gl.draws = <<>>, !.emitted = <<>>]
        w2 == IF ~Has(w1.gconf, "clearColor")
              THEN drawQuad(w1,
                     [ width |-> width(w1),
                       height |-> height(w1),
                       quad |-> quad(R(0), R(0),
                            RDiv(RMul(width(w1), scale(w1)), R(BG_GRID_SIZE)),
                            RDiv(RMul(height(w1), scale(w1)), R(BG_GRID_SIZE))),
                       tex |-> w1.gfx.bgTex ])
              ELSE w1
    IN  [w2 EXCEPT
            !.gfx.transformStack = <<>>,
            !.gfx.transform = mat4]

\* frameStart, had it left the transform stack alone
frameStartKeepingStack(w0) ==
    LET w1 == [w0 EXCEPT !.gl.draws = <<>>, !.emitted = <<>>]
        w2 == IF ~Has(w1.gconf, "clearColor")
              THEN drawQuad(w1,
                     [ width |-> width(w1),
                       height |-> height(w1),
                       quad |-> quad(R(0), R(0),
                            RDiv(RMul(width(w1), scale(w1)), R(BG_GRID_SIZE)),
                            RDiv(RMul(height(w1), scale(w1)), R(BG_GRID_SIZE))),
                       tex |-> w1.gfx.bgTex ])
              ELSE w1
    IN  [w2 EXCEPT
            !.gfx.drawCalls = 0,
            !.gfx.transform = mat4]

\* gfx.ts:670.  The rotation is in quarter turns: Math.PI / 2 is 1.
drawLine(w0, p1, p2, conf) ==
    LET w == IF Has(conf, "width") /\ conf.width # R(0)
             THEN conf.width ELSE R(1)
        h == Vec2Dist(p1, p2)
        rot == 1 - Vec2Angle(p1, p2)
    IN  drawQuad(w0, Spread(conf,
            [ pos |-> Vec2ScaleN(Vec2Add(p1, p2), <<1, 2>>),
              width |-> w,
              height |-> h,
              rot |-> rot,
              origin |-> "center" ]))

\* the corners of drawRectStroke, had the anchor been left out
StrokeCornersUnanchored(pos, w, h, conf) ==
    LET hw == RDiv(w, R(2))
        hh == RDiv(h, R(2))
    IN  << Vec2Add(pos, vec2(RNeg(hw), RNeg(hh))),
           Vec2Add(pos, vec2(RNeg(hw), hh)),
           Vec2Add(pos, vec2(hw, hh)),
           Vec2Add(pos, vec2(hw, RNeg(hh))) >>

\* the corners of drawRectStroke, gfx.ts:657-661
StrokeCorners(pos, w, h, conf) ==
    LET offset == Vec2ScaleN(
                    Vec2Scale(originPt(IF Has(conf, "origin") THEN conf.origin
                                       ELSE DEF_ORIGIN),
                              vec2(w, h)),
                    <<1, 2>>)
        hw == RDiv(w, R(2))
        hh == RDiv(h, R(2))
    IN  << Vec2Sub(Vec2Add(pos, vec2(RNeg(hw), RNeg(hh))), offset),
           Vec2Sub(Vec2Add(pos, vec2(RNeg(hw), hh)), offset),
           Vec2Sub(Vec2Add(pos, vec2(hw, hh)), offset),
           Vec2Sub(Vec2Add(pos, vec2(hw, RNeg(hh))), offset) >>

\* the drawLine calls of drawRectStroke, had they gone round from the top
\* edge: top, right, bottom, left
StrokeLinesFromTop(pos, w, h, conf) ==
    LET p == StrokeCorners(pos, w, h, conf)
    IN  << <<p[1], p[4]>>, <<p[4], p[3]>>, <<p[3], p[2]>>, <<p[2], p[1]>> >>

\* the drawLine calls of drawRectStroke, in order: <<p1, p2>> of each,
\* gfx.ts:663-666
StrokeLines(pos, w, h, conf) ==
    LET p == StrokeCorners(pos, w, h, conf)
    IN  << <<p[1], p[2]>>, <<p[2], p[3]>>, <<p[3], p[4]>>, <<p[4], p[1]>> >>

\* gfx.ts:650
drawRectStroke(w0, pos, w, h, conf) ==
    LET ls == StrokeLines(pos, w, h, conf)
        w1 == drawLine(w0, ls[1][1], ls[1][2], conf)
        w2 == drawLine(w1, ls[2][1], ls[2][2], conf)
        w3 == drawLine(w2, ls[3][1], ls[3][2], conf)
    IN  drawLine(w3, ls[4][1], ls[4][2], conf)

\* gfx.ts:479.  gl.clear empties the colour buffer: the draws recorded in
\* gl are those made since.
frameStart(w0) ==
    LET w1 == [w0 EXCEPT !.gl.draws = <<>>, !.emitted = <<>>]
        w2 == IF ~Has(w1.gconf, "clearColor")
              THEN drawQuad(w1,
                     [ width |-> width(w1),
                       height |-> height(w1),
                       quad |-> quad(R(0), R(0),
                            RDiv(RMul(width(w1), scale(w1)), R(BG_GRID_SIZE)),
                            RDiv(RMul(height(w1), scale(w1)), R(BG_GRID_SIZE))),
                       tex |-> w1.gfx.bgTex ])
              ELSE w1
    IN  [w2 EXCEPT
            !.gfx.drawCalls = 0,
            !.gfx.transformStack = <<>>,
            !.gfx.transform = mat4]

\* frameEnd, had it not flushed
frameEndWithoutFlush(w0) ==
    [w0 EXCEPT !.gfx.lastDrawCalls = w0.gfx.drawCalls]

\* gfx.ts:503
frameEnd(w0) ==
    LET w1 == flush(w0)
    IN  [w1 EXCEPT !.gfx.lastDrawCalls = w1.gfx.drawCalls]

\* drawCalls, had it read the running counter
drawCallsSoFar(w) == w.gfx.drawCalls

\* gfx.ts:508
drawCalls(w) == w.gfx.lastDrawCalls

-----------------------------------------------------------------------------
(* Text layout, gfx.ts:368-396 and 692-767.  A string is the sequence of   *)
(* its characters.                                                         *)

NewLine == "\n"

\* makeFont, had it filled the atlas column by column
makeFontColumnMajor(tex, gw, gh, chars) ==
    LET cols == TexWidth(tex) \div gw
        rows == TexHeight(tex) \div gh
        qw == RDiv(R(1), R(cols))
        qh == RDiv(R(1), R(rows))
        At(c) == CHOOSE i \in 1..Len(chars) :
                    /\ chars[i] = c
                    /\ \A j \in (i + 1)..Len(chars) : chars[j] # c
    IN  [ tex |-> tex,
          map |-> [c \in {chars[i] : i \in 1..Len(chars)} |->
                      vec2(RMul(R((At(c) - 1) \div rows), qw),
                           RMul(R((At(c) - 1) % rows), qh))],
          qw |-> qw,
          qh |-> qh ]

\* gfx.ts:368, for a texture the glyph cell divides: chars[i] has the cell
\* of column i % cols and row floor(i / cols), i counted from 0
makeFont(tex, gw, gh, chars) ==
    LET cols == TexWidth(tex) \div gw
        rows == TexHeight(tex) \div gh
        qw == RDiv(R(1), R(cols))
        qh == RDiv(R(1), R(rows))
        \* a character written twice keeps its last cell
        At(c) == CHOOSE i \in 1..Len(chars) :
                    /\ chars[i] = c
                    /\ \A j \in (i + 1)..Len(chars) : chars[j] # c
    IN  [ tex |-> tex,
          map |-> [c \in {chars[i] : i \in 1..Len(chars)} |->
                      vec2(RMul(R((At(c) - 1) % cols), qw),
                           RMul(R((At(c) - 1) \div cols), qh))],
          qw |-> qw,
          qh |-> qh ]

\* the glyph cell of the font on the screen at the configured size:
\* <<cw, ch>>, with the scale, gfx.ts:699-704
GlyphCell(font, conf) ==
    LET gw == RMul(font.qw, R(TexWidth(font.tex)))
        gh == RMul(font.qh, R(TexHeight(font.tex)))
        size == IF Has(conf, "size") /\ conf.size # R(0)
                THEN conf.size ELSE gh
        scl == Vec2Scale(vec2(RDiv(size, gh), RDiv(size, gh)),
                         IF Has(conf, "scale") THEN conf.scale
                         ELSE vec2(R(1), R(1)))
    IN  [ scale |-> scl, cw |-> RMul(scl.x, gw), ch |-> RMul(scl.y, gh) ]

\* conf.width ? ... : false
Wraps(conf) == Has(conf, "width") /\ conf.width # R(0)

\* the measuring loop after the first n characters, had it wrapped once
\* the cursor is past the wrap width
RECURSIVE fmtLoopLateWrap(_, _, _, _, _)
fmtLoopLateWrap(chars, n, cw, ch, conf) ==
    IF n = 0
    THEN [ curX |-> R(0), th |-> ch, tw |-> R(0), flines |-> << <<>> >> ]
    ELSE LET s == fmtLoopLateWrap(chars, n - 1, cw, ch, conf)
             char == chars[n]
             brk == \/ char = NewLine
                    \/ /\ Wraps(conf)
                       /\ ~RLeq(s.curX, conf.width)
             s1 == IF brk
                   THEN [s EXCEPT !.th = RAdd(@, ch),
                                  !.curX = R(0),
                                  !.flines = Append(@, <<>>)]
                   ELSE s
             s2 == IF char # NewLine
                   THEN [s1 EXCEPT
                           !.flines[Len(s1.flines)] = Append(@, char),
                           !.curX = RAdd(@, cw)]
                   ELSE s1
         IN  [s2 EXCEPT !.tw = IF RLeq(s2.curX, @) THEN @ ELSE s2.curX]

\* the measuring loop after the first n characters, had a new line not
\* added to the height
RECURSIVE fmtLoopFlatHeight(_, _, _, _, _)
fmtLoopFlatHeight(chars, n, cw, ch, conf) ==
    IF n = 0
    THEN [ curX |-> R(0), th |-> ch, tw |-> R(0), flines |-> << <<>> >> ]
    ELSE LET s == fmtLoopFlatHeight(chars, n - 1, cw, ch, conf)
             char == chars[n]
             brk == \/ char = NewLine
                    \/ /\ Wraps(conf)
                       /\ ~RLeq(RAdd(s.curX, cw), conf.width)
             s1 == IF brk
                   THEN [s EXCEPT !.curX = R(0),
                                  !.flines = Append(@, <<>>)]
                   ELSE s
             s2 == IF char # NewLine
                   THEN [s1 EXCEPT
                           !.flines[Len(s1.flines)] = Append(@, char),
                           !.curX = RAdd(@, cw)]
                   ELSE s1
         IN  [s2 EXCEPT !.tw = IF RLeq(s2.curX, @) THEN @ ELSE s2.curX]

\* the measuring loop of fmtText after the first n characters,
\* gfx.ts:705-723
RECURSIVE fmtLoop(_, _, _, _, _)
fmtLoop(chars, n, cw, ch, conf) ==
    IF n = 0
    THEN [ curX |-> R(0), th |-> ch, tw |-> R(0), flines |-> << <<>> >> ]
    ELSE LET s == fmtLoop(chars, n - 1, cw, ch, conf)
             char == chars[n]
             brk == \/ char = NewLine
                    \/ /\ Wraps(conf)
                       /\ ~RLeq(RAdd(s.curX, cw), conf.width)
             s1 == IF brk
                   THEN [s EXCEPT !.th = RAdd(@, ch),
                                  !.curX = R(0),
                                  !.flines = Append(@, <<>>)]
                   ELSE s
             s2 == IF char # NewLine
                   THEN [s1 EXCEPT
                           !.flines[Len(s1.flines)] = Append(@, char),
                           !.curX = RAdd(@, cw)]
                   ELSE s1
         IN  [s2 EXCEPT !.tw = IF RLeq(s2.curX, @) THEN @ ELSE s2.curX]

\* fmtText, had it given a glyph entry to the characters without a glyph too
fmtTextKeepingUnmapped(text, font, conf) ==
    LET cell == GlyphCell(font, conf)
        cw == cell.cw
        ch == cell.ch
        m == fmtLoop(text, Len(text), cw, ch, conf)
        th == m.th
        tw == IF Wraps(conf) THEN conf.width ELSE m.tw
        pos == IF Has(conf, "pos") THEN conf.pos ELSE vec2(R(0), R(0))
        offset == Vec2ScaleN(originPt(IF Has(conf, "origin") THEN conf.origin
                                      ELSE DEF_ORIGIN), <<1, 2>>)
        ox == RSub(RMul(RNeg(offset.x), cw),
                   RMul(RAdd(offset.x, <<1, 2>>), RSub(tw, cw)))
        oy == RSub(RMul(RNeg(offset.y), ch),
                   RMul(RAdd(offset.y, <<1, 2>>), RSub(th, ch)))
        Opt(f) == IF Has(conf, f) THEN conf[f] ELSE Absent
        \* the glyphs of line ln (counted from 0)
        LineChars(ln) ==
            LET line == m.flines[ln + 1]
                oxl == RMul(RSub(tw, RMul(R(Len(line)), cw)),
                            RAdd(offset.x, <<1, 2>>))
                all == [k \in 1..Len(line) |->
                    [ tex |-> font.tex,
                      quad |-> IF line[k] \in DOMAIN font.map
                               THEN quad(font.map[line[k]].x,
                                         font.map[line[k]].y,
                                         font.qw, font.qh)
                               ELSE Absent,
                      ch |-> line[k],
                      pos |-> vec2(
                          RAdd(RAdd(RAdd(pos.x, RMul(R(k - 1), cw)), ox),
                               oxl),
                          RAdd(RAdd(pos.y, RMul(R(ln), ch)), oy)),
                      color |-> Opt("color"),
                      origin |-> Opt("origin"),
                      scale |-> cell.scale,
                      z |-> Opt("z") ]]
            IN  all
    IN  [ width |-> tw,
          height |-> th,
          chars |-> Flat([ln \in 1..Len(m.flines) |-> LineChars(ln - 1)]) ]

\* gfx.ts:692
fmtText(text, font, conf) ==
    LET cell == GlyphCell(font, conf)
        cw == cell.cw
        ch == cell.ch
        m == fmtLoop(text, Len(text), cw, ch, conf)
        th == m.th
        tw == IF Wraps(conf) THEN conf.width ELSE m.tw
        pos == IF Has(conf, "pos") THEN conf.pos ELSE vec2(R(0), R(0))
        offset == Vec2ScaleN(originPt(IF Has(conf, "origin") THEN conf.origin
                                      ELSE DEF_ORIGIN), <<1, 2>>)
        ox == RSub(RMul(RNeg(offset.x), cw),
                   RMul(RAdd(offset.x, <<1, 2>>), RSub(tw, cw)))
        oy == RSub(RMul(RNeg(offset.y), ch),
                   RMul(RAdd(offset.y, <<1, 2>>), RSub(th, ch)))
        Opt(f) == IF Has(conf, f) THEN conf[f] ELSE Absent
        \* the glyphs of line ln (counted from 0), unmapped characters
        \* left out
        LineChars(ln) ==
            LET line == m.flines[ln + 1]
                oxl == RMul(RSub(tw, RMul(R(Len(line)), cw)),
                            RAdd(offset.x, <<1, 2>>))
                all == [k \in 1..Len(line) |->
                    [ tex |-> font.tex,
                      quad |-> IF line[k] \in DOMAIN font.map
                               THEN quad(font.map[line[k]].x,
                                         font.map[line[k]].y,
                                         font.qw, font.qh)
                               ELSE Absent,
                      ch |-> line[k],
                      pos |-> vec2(
                          RAdd(RAdd(RAdd(pos.x, RMul(R(k - 1), cw)), ox),
                               oxl),
                          RAdd(RAdd(pos.y, RMul(R(ln), ch)), oy)),
                      color |-> Opt("color"),
                      origin |-> Opt("origin"),
                      scale |-> cell.scale,
                      z |-> Opt("z") ]]
                Mapped(c) == c.ch \in DOMAIN font.map
            IN  SelectSeq(all, Mapped)
    IN  [ width |-> tw,
          height |-> th,
          chars |-> Flat([ln \in 1..Len(m.flines) |-> LineChars(ln - 1)]) ]

\* the DrawQuadConf drawFmtText makes of a glyph, gfx.ts:780-790: a field
\* that is undefined in the glyph is as good as left out
GlyphConf(c) ==
    LET Opt(f) == IF DOMAIN c[f] = {} THEN NoConf
                  ELSE [g \in {f} |-> c[f]]
    IN  Spread(Spread(Opt("color"), Opt("z")),
               [ tex |-> c.tex,
                 width |-> RMul(R(TexWidth(c.tex)), c.quad.w),
                 height |-> RMul(R(TexHeight(c.tex)), c.quad.h),
                 pos |-> c.pos,
                 scale |-> c.scale,
                 quad |-> c.quad,
                 origin |-> "center" ])

\* the first n glyphs drawn, in order
RECURSIVE drawGlyphs(_, _, _)
drawGlyphs(w, chars, n) ==
    IF n = 0 THEN w
    ELSE drawQuad(drawGlyphs(w, chars, n - 1), GlyphConf(chars[n]))

\* gfx.ts:778
drawFmtText(w0, ftext) == drawGlyphs(w0, ftext.chars, Len(ftext.chars))

\* gfx.ts:769
drawText(w0, txt, font, conf) == drawFmtText(w0, fmtText(txt, font, conf))

-----------------------------------------------------------------------------
(* Initialization, gfx.ts:183-238 *)

\* the canvas the context draws to: <<drawingBufferWidth, drawingBufferHeight>>
CanvasSizes == {<<100, 100>>}

\* the configurations: no clearColor (checker background), or one
GfxConfs == {"checker", "clear"}
GfxConf(c) == IF c = "clear"
              THEN [clearColor |-> rgba(R(0), R(0), R(0), R(1))]
              ELSE NoConf

\* gl.createBuffer / gl.bufferData, gfx.ts:196-206 (sizes in bytes)
GlInit(size) ==
    [ drawingBufferWidth |-> size[1],
      drawingBufferHeight |-> size[2],
      vbufSize |-> QUEUE_COUNT * 4,
      ibufSize |-> QUEUE_COUNT * 2,
      draws |-> <<>> ]

\* gfx.ts:217-233
GfxCtxInit ==
    [ drawCalls |-> 0,
      lastDrawCalls |-> 0,
      defProg |-> DefProg,
      curProg |-> DefProg,
      defTex |-> EmptyTex,
      curTex |-> EmptyTex,
      curUniform |-> FreshObj,
      vqueue |-> EmptyQueue,
      iqueue |-> EmptyQueue,
      transform |-> mat4,
      transformStack |-> <<>>,
      bgTex |-> BgTex ]

\* gfx.ts:173: the context is built, then frameStart(); frameEnd();
gfxInit(size, c, h) ==
    frameEnd(frameStart(
        [ gfx |-> GfxCtxInit, gl |-> GlInit(size), gconf |-> GfxConf(c),
          heap |-> h, emitted |-> <<>> ]))

Init ==
    \E size \in CanvasSizes, c \in GfxConfs :
        LET w == gfxInit(size, c, [r \in Refs |-> U0])
        IN  /\ gfx = w.gfx
            /\ gl = w.gl
            /\ gconf = w.gconf
            /\ heap = w.heap
            /\ emitted = w.emitted
            /\ phase = "idle"
            /\ frames = 0
            /\ mutations = 0
            /\ call = [op |-> "gfxInit"]

-----------------------------------------------------------------------------
(* The caller: the public operations of the Gfx object, gfx.ts:814-835 *)

\* the renderer's function has run and left the world w
Returns(w) ==
    /\ gfx' = w.gfx
    /\ gl' = w.gl
    /\ emitted' = w.emitted
    /\ UNCHANGED <<gconf, heap>>

RectSize == vec2(R(4), R(6))

\* what the caller draws rectangles with: <<pos, conf.prog, conf.uniform>>
RectArgs ==
    { <<vec2(R(0), R(0)), Null, Null>>,
      <<vec2(R(10), R(20)), Null, Null>>,
      <<vec2(R(0), R(0)), "progA", Null>>,
      <<vec2(R(0), R(0)), Null, "o1">>,
      <<vec2(R(0), R(0)), Null, "o2">> }

\* a DrawRectConf with the optional prog and uniform
StateConf(p, u) ==
    Spread(IF p = Null THEN NoConf ELSE [prog |-> p],
           IF u = Null THEN NoConf ELSE [uniform |-> u])

FrameStart ==
    /\ phase = "idle"
    /\ frames < MaxFrames
    /\ Returns(frameStart(World))
    /\ phase' = "active"
    /\ frames' = frames + 1
    /\ UNCHANGED <<mutations, call>>

FrameEnd ==
    /\ phase = "active"
    /\ Returns(frameEnd(World))
    /\ phase' = "idle"
    /\ UNCHANGED <<frames, mutations, call>>

DrawRect ==
    /\ phase = "active"
    /\ Len(emitted) < MaxEmits
    /\ \E a \in RectArgs :
            Returns(drawRect(World, a[1], RectSize.x, RectSize.y,
                             StateConf(a[2], a[3])))
    /\ UNCHANGED <<phase, frames, mutations, call>>

DrawTexture ==
    /\ phase = "active"
    /\ Len(emitted) < MaxEmits
    /\ \E tex \in CallerTextures :
            Returns(drawTexture(World, tex, NoConf))
    /\ UNCHANGED <<phase, frames, mutations, call>>

\* the caller changes a uniform mapping of its own in place
MutateUniform ==
    /\ mutations < MaxMutations
    /\ \E r \in Refs, v \in UniformValues :
        /\ v # heap[r]
        /\ heap' = [heap EXCEPT ![r] = v]
    /\ mutations' = mutations + 1
    /\ UNCHANGED <<gfx, gl, gconf, emitted, phase, frames, call>>

Next ==
    \/ FrameStart
    \/ FrameEnd
    \/ DrawRect
    \/ DrawTexture
    \/ MutateUniform

Spec == Init /\ [][Next]_vars

-----------------------------------------------------------------------------
(* A caller that fills the queue: one frame of the same rectangle, drawn   *)
(* over and over with the default texture, program and uniforms, on a      *)
(* renderer with the checker background.                                   *)

InitFill == Init /\ ~Has(gconf, "clearColor")

\* the numbers of drawRaw calls after which this caller may end its frame
\* (the background, one rectangle more, a full queue, one and two more)
FillFrameLengths == {1, 2, 1821, 1822, 1823}

FillFrameStart ==
    /\ phase = "idle"
    /\ frames = 0
    /\ Returns(frameStart(World))
    /\ phase' = "active"
    /\ frames' = frames + 1
    /\ UNCHANGED <<mutations, call>>

FillFrameEnd ==
    /\ phase = "active"
    /\ Len(emitted) \in FillFrameLengths
    /\ Returns(frameEnd(World))
    /\ phase' = "idle"
    /\ UNCHANGED <<frames, mutations, call>>

\* the caller's loop: n rectangles drawn one after the other (by halves)
RECURSIVE drawRects(_, _)
drawRects(w, n) ==
    IF n = 0 THEN w
    ELSE IF n = 1
         THEN drawRect(w, vec2(R(10), R(20)), RectSize.x, RectSize.y, NoConf)
         ELSE LET half == drawRects(w, n \div 2)
              IN  IF half.gfx.drawCalls >= 0    \* the first half runs first
                  THEN drawRects(half, n - n \div 2)
                  ELSE half

\* the caller draws its tile map first in the frame: one rectangle short of
\* the 1820 that fill the vertex queue
FillTiles ==
    /\ phase = "active"
    /\ Len(emitted) = 1
    /\ Len(emitted) + MaxTiles <= MaxFillEmits
    /\ Returns(drawRects(World, MaxTiles))
    /\ UNCHANGED <<phase, frames, mutations, call>>

FillRect ==
    /\ phase = "active"
    /\ Len(emitted) < MaxFillEmits
    /\ Returns(drawRects(World, 1))
    /\ UNCHANGED <<phase, frames, mutations, call>>

NextFill ==
    \/ FillFrameStart
    \/ FillFrameEnd
    \/ FillTiles
    \/ FillRect

SpecFill == InitFill /\ [][NextFill]_vars

-----------------------------------------------------------------------------
(* A caller that uses the transform stack: frames of rectangles drawn      *)
(* between pushTransform, popTransform and pushMatrix calls, balanced or   *)
(* not.  This caller keeps a record of its last call.                      *)

\* the matrices the caller installs with pushMatrix: a translation and a
\* scaling in one
Matrices ==
    { Mat4Scale(Mat4Translate(mat4, vec2(R(30), R(0))), vec2(R(2), R(2))) }

\* what this caller draws rectangles with: <<pos, w, h, conf>>
StackRectArgs ==
    { <<vec2(R(0), R(0)), R(10), R(10), [origin |-> "center"]>>,
      <<vec2(R(10), R(20)), RectSize.x, RectSize.y, NoConf>> }

StackFrameStart ==
    /\ phase = "idle"
    /\ frames < MaxStackFrames
    /\ Returns(frameStart(World))
    /\ phase' = "active"
    /\ frames' = frames + 1
    /\ call' = [op |-> "frameStart"]
    /\ UNCHANGED mutations

StackFrameEnd ==
    /\ phase = "active"
    /\ Returns(frameEnd(World))
    /\ phase' = "idle"
    /\ call' = [op |-> "frameEnd"]
    /\ UNCHANGED <<frames, mutations>>

PushTransform ==
    /\ phase = "active"
    /\ Len(gfx.transformStack) < MaxDepth
    /\ Returns(pushTransform(World))
    /\ call' = [op |-> "pushTransform"]
    /\ UNCHANGED <<phase, frames, mutations>>

PopTransform ==
    /\ phase = "active"
    /\ Returns(popTransform(World))
    /\ call' = [op |-> "popTransform", depth |-> Len(gfx.transformStack)]
    /\ UNCHANGED <<phase, frames, mutations>>

PushMatrix ==
    /\ phase = "active"
    /\ \E m \in Matrices :
        /\ Returns(pushMatrix(World, m))
        /\ call' = [op |-> "pushMatrix", m |-> m]
    /\ UNCHANGED <<phase, frames, mutations>>

StackDrawRect ==
    /\ phase = "active"
    /\ Len(emitted) < MaxStackEmits
    /\ \E a \in StackRectArgs :
        /\ Returns(drawRect(World, a[1], a[2], a[3], a[4]))
        /\ call' = [op |-> "drawRect", pos |-> a[1], w |-> a[2], h |-> a[3],
                    conf |-> a[4]]
    /\ UNCHANGED <<phase, frames, mutations>>

NextFrame ==
    \/ StackFrameStart
    \/ StackFrameEnd
    \/ PushTransform
    \/ PopTransform
    \/ PushMatrix
    \/ StackDrawRect

SpecFrame == Init /\ [][NextFrame]_vars

-----------------------------------------------------------------------------
(* A caller that draws outlines and lines: one frame of drawRectStroke and *)
(* drawLine calls under the identity transform.  This caller keeps a       *)
(* record of its last call.                                                *)

\* what the caller outlines rectangles with: <<pos, w, h>>
StrokeRects ==
    { <<vec2(R(20), R(30)), R(40), R(10)>>,
      <<vec2(R(50), R(50)), R(6), R(6)>> }

\* the DrawRectStrokeConf of the caller: anchor and stroke width
StrokeConfs ==
    { NoConf,
      [origin |-> "center"],
      [origin |-> "botright", width |-> R(2)],
      [width |-> R(4)] }

\* the segments the caller draws: <<p1, p2>>
LineArgs ==
    { <<vec2(R(10), R(10)), vec2(R(30), R(10))>>,
      <<vec2(R(10), R(10)), vec2(R(10), R(40))>>,
      <<vec2(R(30), R(10)), vec2(R(10), R(10))>> }

ShapeFrameStart ==
    /\ phase = "idle"
    /\ frames = 0
    /\ Returns(frameStart(World))
    /\ phase' = "active"
    /\ frames' = frames + 1
    /\ call' = [op |-> "frameStart"]
    /\ UNCHANGED mutations

ShapeFrameEnd ==
    /\ phase = "active"
    /\ Returns(frameEnd(World))
    /\ phase' = "idle"
    /\ call' = [op |-> "frameEnd"]
    /\ UNCHANGED <<frames, mutations>>

DrawRectStroke ==
    /\ phase = "active"
    /\ Len(emitted) + 4 <= MaxShapeEmits
    /\ \E a \in StrokeRects, conf \in StrokeConfs :
        /\ Returns(drawRectStroke(World, a[1], a[2], a[3], conf))
        /\ call' = [op |-> "drawRectStroke", pos |-> a[1], w |-> a[2],
                    h |-> a[3], conf |-> conf]
    /\ UNCHANGED <<phase, frames, mutations>>

DrawLine ==
    /\ phase = "active"
    /\ Len(emitted) + 1 <= MaxShapeEmits
    /\ \E a \in LineArgs :
        /\ Returns(drawLine(World, a[1], a[2], NoConf))
        /\ call' = [op |-> "drawLine", p1 |-> a[1], p2 |-> a[2],
                    conf |-> NoConf]
    /\ UNCHANGED <<phase, frames, mutations>>

NextShapes ==
    \/ ShapeFrameStart
    \/ ShapeFrameEnd
    \/ DrawRectStroke
    \/ DrawLine

SpecShapes == Init /\ [][NextShapes]_vars

-----------------------------------------------------------------------------
(* A caller that lays out text: fmtText on the strings of up to MaxTextLen *)
(* characters, with a font that has glyphs for a and b and none for z.     *)
(* This caller keeps a record of its last call.                            *)

Characters == {"a", "b", "z", NewLine}

Texts == UNION { [1..n -> Characters] : n \in 0..MaxTextLen }

\* makeFont(tex, 2, 2, "ab") on the 4x2 texture
Fonts == { makeFont("texA", 2, 2, <<"a", "b">>) }

\* the DrawTextConf of the caller: size, wrap width, anchor
TextConfs ==
    { Spread(Spread(s, wd), o) :
        s \in { NoConf, [size |-> R(3)] },
        wd \in { NoConf, [width |-> R(1)], [width |-> R(5)] },
        o \in { NoConf, [origin |-> "center"],
                [origin |-> "botright", pos |-> vec2(R(7), R(9))] } }

\* fmtText reads and writes nothing of the renderer: one call is enough
FmtText ==
    /\ call.op = "gfxInit"
    /\ \E text \in Texts, font \in Fonts, conf \in TextConfs :
            call' = [ op |-> "fmtText", text |-> text, font |-> font,
                      conf |-> conf, ret |-> fmtText(text, font, conf) ]
    /\ UNCHANGED <<gfx, gl, gconf, heap, emitted, phase, frames, mutations>>

\* the character-set strings handed to makeFont, and the glyph sizes that
\* divide the 4x2 texture
Charsets == UNION { [1..n -> Characters] : n \in 0..MaxCharsetLen }
GlyphWidths == {1, 2, 4}
GlyphHeights == {1, 2}

\* makeFont reads and writes nothing of the renderer either
MakeFont ==
    /\ call.op = "gfxInit"
    /\ \E tex \in CallerTextures, gw \in GlyphWidths, gh \in GlyphHeights,
          chars \in Charsets :
            call' = [ op |-> "makeFont", tex |-> tex, gw |-> gw, gh |-> gh,
                      chars |-> chars, ret |-> makeFont(tex, gw, gh, chars) ]
    /\ UNCHANGED <<gfx, gl, gconf, heap, emitted, phase, frames, mutations>>

NextText == FmtText \/ MakeFont

SpecText == Init /\ [][NextText]_vars

-----------------------------------------------------------------------------
(* Callers that make one drawing operation in their frame, after any       *)
(* pushTransform, popTransform and pushMatrix calls: one that fills        *)
(* rectangles and draws textures, lines and texts, and one that outlines   *)
(* rectangles.  They keep a record of their last call.                     *)

\* what this caller draws rectangles with: every anchor, scaled or not
AnchorConfs == {NoConf} \cup {[origin |-> o] : o \in Origins}
ScaleConfs == {NoConf, [scale |-> vec2(R(2), R(3))]}
DrawTextureConfs ==
    { NoConf,
      [pos |-> vec2(R(10), R(20)), scale |-> vec2(R(2), R(3)),
       origin |-> "center"] }
DrawTexts == { <<"a", "b">>, <<"a", NewLine, "b">>, <<"a", "z">> }
DrawTextConfs ==
    { NoConf,
      [size |-> R(3), origin |-> "center", pos |-> vec2(R(7), R(9))] }

\* no drawing operation of the caller has been made in the frame
NothingDrawn ==
    /\ phase = "active"
    /\ \A k \in 1..Len(emitted) : emitted[k].tex = gfx.bgTex

OneDrawRect ==
    /\ NothingDrawn
    /\ \E o \in AnchorConfs, s \in ScaleConfs :
        LET pos == vec2(R(10), R(20))
            conf == Spread(o, s)
        IN  /\ Returns(drawRect(World, pos, RectSize.x, RectSize.y, conf))
            /\ call' = [op |-> "drawRect", pos |-> pos, w |-> RectSize.x,
                        h |-> RectSize.y, conf |-> conf]
    /\ UNCHANGED <<phase, frames, mutations>>

OneDrawTexture ==
    /\ NothingDrawn
    /\ \E tex \in CallerTextures, conf \in DrawTextureConfs :
        /\ Returns(drawTexture(World, tex, conf))
        /\ call' = [op |-> "drawTexture", tex |-> tex, conf |-> conf]
    /\ UNCHANGED <<phase, frames, mutations>>

OneDrawRectStroke ==
    /\ NothingDrawn
    /\ \E a \in StrokeRects, conf \in AnchorConfs :
        /\ Returns(drawRectStroke(World, a[1], a[2], a[3], conf))
        /\ call' = [op |-> "drawRectStroke", pos |-> a[1], w |-> a[2],
                    h |-> a[3], conf |-> conf]
    /\ UNCHANGED <<phase, frames, mutations>>

OneDrawLine ==
    /\ NothingDrawn
    /\ \E a \in LineArgs :
        /\ Returns(drawLine(World, a[1], a[2], NoConf))
        /\ call' = [op |-> "drawLine", p1 |-> a[1], p2 |-> a[2],
                    conf |-> NoConf]
    /\ UNCHANGED <<phase, frames, mutations>>

OneDrawText ==
    /\ NothingDrawn
    /\ \E txt \in DrawTexts, font \in Fonts, conf \in DrawTextConfs :
        /\ Returns(drawText(World, txt, font, conf))
        /\ call' = [op |-> "drawText", text |-> txt, font |-> font,
                    conf |-> conf]
    /\ UNCHANGED <<phase, frames, mutations>>

\* the formatted texts the caller has fmtText make and keeps for drawing
FmtTexts ==
    { fmtText(txt, font, conf) :
        txt \in DrawTexts, font \in Fonts, conf \in DrawTextConfs }

OneDrawFmtText ==
    /\ NothingDrawn
    /\ \E ftext \in FmtTexts :
        /\ Returns(drawFmtText(World, ftext))
        /\ call' = [op |-> "drawFmtText", ftext |-> ftext]
    /\ UNCHANGED <<phase, frames, mutations>>

NextDraw ==
    \/ ShapeFrameStart
    \/ ShapeFrameEnd
    \/ PushTransform
    \/ PopTransform
    \/ PushMatrix
    \/ OneDrawRect
    \/ OneDrawTexture
    \/ OneDrawLine
    \/ OneDrawText
    \/ OneDrawFmtText

SpecDraw == Init /\ [][NextDraw]_vars

NextOutline ==
    \/ ShapeFrameStart
    \/ ShapeFrameEnd
    \/ PushTransform
    \/ PopTransform
    \/ PushMatrix
    \/ OneDrawRectStroke

SpecOutline == Init /\ [][NextOutline]_vars

-----------------------------------------------------------------------------
(* Reading the history *)

Last(seq) == seq[Len(seq)]

\* floats and indices handed to drawRaw by the first n calls of a log
FloatsTo(log, n) == SumTo([k \in 1..Len(log) |-> Len(log[k].floats)], n)
IndicesTo(log, n) == SumTo([k \in 1..Len(log) |-> Len(log[k].indices)], n)
TotalFloats(log) == FloatsTo(log, Len(log))
TotalIndices(log) == IndicesTo(log, Len(log))

\* floats and indices drawn by the first n draw calls
DrawnFloatsTo(draws, n) == SumTo([k \in 1..Len(draws) |-> QLen(draws[k].vdata)], n)
DrawnIndicesTo(draws, n) == SumTo([k \in 1..Len(draws) |-> draws[k].count], n)

\* a step in which the caller's operation made exactly one drawRaw call
EmitStep ==
    /\ phase = "active"
    /\ phase' = "active"
    /\ Len(emitted') = Len(emitted) + 1

\* the drawRaw calls whose geometry is in the queues now: those made since
\* the queues were last emptied
QueuedEmits ==
    IF QLen(gfx.vqueue) = 0 THEN {}
    ELSE {k \in 1..Len(emitted) :
            \A j \in (k + 1)..Len(emitted) : emitted[j].base # 0}

\* the call found room for its geometry in the queues
Fits(e) ==
    /\ e.vqueued + Len(e.floats) <= QUEUE_COUNT
    /\ e.iqueued + Len(e.indices) <= QUEUE_COUNT

SameBatchState(e1, e2) ==
    /\ e1.tex = e2.tex
    /\ e1.prog = e2.prog
    /\ deepEq(e1.uniform, e2.uniform)

-----------------------------------------------------------------------------
(* C1: drawRaw calls of one frame that all use the same texture, the same  *)
(* program and deeply equal uniform sets, and together stay under the      *)
(* queue capacity, cause exactly one draw call, made by frameEnd, and its  *)
(* index count is the sum of the index counts of the calls.                *)
C1_OneFlushAtFrameEnd ==
    ( /\ emitted # <<>>
      /\ \A i, j \in 1..Len(emitted) : SameBatchState(emitted[i], emitted[j])
      /\ TotalFloats(emitted) <= QUEUE_COUNT
      /\ TotalIndices(emitted) <= QUEUE_COUNT )
    => /\ phase = "active" => Len(gl.draws) = 0
       /\ phase = "idle" =>
            /\ Len(gl.draws) = 1
            /\ gl.draws[1].count = TotalIndices(emitted)

-----------------------------------------------------------------------------
(* C2: when a drawRaw call follows another with a different texture or a   *)
(* different program, the queued geometry is drawn first: the draw-call    *)
(* counter goes up by one, one draw call is made with the queues as they   *)
(* were, and when the call returns the queues hold its geometry alone.     *)
C2_FlushOnTextureOrProgramChange ==
    [][ ( /\ EmitStep
          /\ emitted # <<>>
          /\ \/ Last(emitted').tex # Last(emitted).tex
             \/ Last(emitted').prog # Last(emitted).prog )
        => /\ gfx'.drawCalls = gfx.drawCalls + 1
           /\ Len(gl'.draws) = Len(gl.draws) + 1
           /\ Last(gl'.draws).vdata = gfx.vqueue
           /\ Last(gl'.draws).count = QLen(gfx.iqueue)
           /\ QFlat(gfx'.vqueue) = Last(emitted').floats
           /\ QFlat(gfx'.iqueue) = Last(emitted').indices ]_vars

\* a texture change and then a program change, each drawn apart
C2_Witness ==
    /\ Len(emitted) = 3
    /\ emitted[2].tex # emitted[1].tex
    /\ emitted[3].tex = emitted[2].tex
    /\ emitted[3].prog # emitted[2].prog
    /\ emitted[2].flushed
    /\ emitted[3].flushed
    /\ QFlat(gfx.vqueue) = emitted[3].floats
    /\ gfx.drawCalls = 2

-----------------------------------------------------------------------------
(* C3: between two consecutive drawRaw calls with the same texture and     *)
(* program, a draw call is made exactly when the uniform mappings the two  *)
(* calls were given differ in value; whether they are one object or two    *)
(* plays no part.                                                          *)
C3_UniformsComparedByValue ==
    \A k \in 2..Len(emitted) :
        ( /\ emitted[k].tex = emitted[k - 1].tex
          /\ emitted[k].prog = emitted[k - 1].prog
          /\ Fits(emitted[k]) )
        => ( emitted[k].flushed
               <=> ~deepEq(emitted[k - 1].uniform, emitted[k].uniform) )

-----------------------------------------------------------------------------
(* C6: the geometry in the queues was all given to drawRaw with one        *)
(* texture, one program and one uniform set (by value): geometry of two    *)
(* different states is never queued together.                              *)
C6_OneStatePerBatch ==
    \A i, j \in QueuedEmits : SameBatchState(emitted[i], emitted[j])

-----------------------------------------------------------------------------
(* C7: the vertex queue is a whole number of 9-float vertices, every index *)
(* in the index queue names a vertex that is in the vertex queue, and each *)
(* queued primitive's indices are its own indices plus the vertex count    *)
(* found when it was queued, so that they name its own vertices; the same  *)
(* holds of the data of every draw call.                                   *)
FirstQueued == CHOOSE m \in QueuedEmits : \A n \in QueuedEmits : m <= n

C7_IndicesNameOwnVertices ==
    LET vqueue == QFlat(gfx.vqueue)
        iqueue == QFlat(gfx.iqueue)
    IN  /\ Len(vqueue) % STRIDE = 0
        /\ \A k \in 1..Len(iqueue) :
                /\ iqueue[k] >= 0
                /\ iqueue[k] * STRIDE < Len(vqueue)
        /\ \A k \in QueuedEmits :
            LET e == emitted[k]
                voff == FloatsTo(emitted, k - 1)
                            - FloatsTo(emitted, FirstQueued - 1)
                ioff == IndicesTo(emitted, k - 1)
                            - IndicesTo(emitted, FirstQueued - 1)
            IN  /\ e.base * STRIDE = voff
                /\ SubSeq(vqueue, voff + 1, voff + Len(e.floats)) = e.floats
                /\ \A n \in 1..Len(e.indices) :
                    /\ iqueue[ioff + n] = e.indices[n] + e.base
                    /\ iqueue[ioff + n] * STRIDE >= voff
                    /\ iqueue[ioff + n] * STRIDE < voff + Len(e.floats)
        /\ \A d \in 1..Len(gl.draws) :
            LET vdata == QFlat(gl.draws[d].vdata)
                idata == QFlat(gl.draws[d].idata)
            IN  /\ Len(vdata) % STRIDE = 0
                /\ \A k \in 1..Len(idata) : idata[k] * STRIDE < Len(vdata)

\* two primitives queued together, the second one's indices offset by 4
C7_Witness ==
    /\ Cardinality(QueuedEmits) = 2
    /\ Last(emitted).base = 4
    /\ QLen(gfx.iqueue) = 12
    /\ QFlat(gfx.iqueue)[7] = 4
    /\ QFlat(gfx.iqueue)[12] = 7

-----------------------------------------------------------------------------
(* C8: what has been drawn, in the order of the draw calls, followed by    *)
(* what is queued, is what was given to drawRaw, in the order of the       *)
(* calls: vertex for vertex, and triangle corner for triangle corner.  So  *)
(* when frameEnd has emptied the queues, the draw calls together hold the  *)
(* frame's primitives in the order they were emitted.                      *)

\* the vertices an index list names, in its order
Corners(vdata, idata) ==
    [k \in 1..Len(idata) |->
        SubSeq(vdata, idata[k] * STRIDE + 1, idata[k] * STRIDE + STRIDE)]

RECURSIVE EmittedFloats(_, _)
EmittedFloats(log, n) ==
    IF n = 0 THEN <<>> ELSE EmittedFloats(log, n - 1) \o log[n].floats

RECURSIVE EmittedCorners(_, _)
EmittedCorners(log, n) ==
    IF n = 0 THEN <<>>
    ELSE EmittedCorners(log, n - 1) \o Corners(log[n].floats, log[n].indices)

RECURSIVE DrawnFloats(_, _)
DrawnFloats(draws, n) ==
    IF n = 0 THEN <<>>
    ELSE DrawnFloats(draws, n - 1) \o QFlat(draws[n].vdata)

RECURSIVE DrawnCorners(_, _)
DrawnCorners(draws, n) ==
    IF n = 0 THEN <<>>
    ELSE DrawnCorners(draws, n - 1)
            \o Corners(QFlat(draws[n].vdata), QFlat(draws[n].idata))

C8_DrawOrderIsEmitOrder ==
    /\ DrawnFloats(gl.draws, Len(gl.draws)) \o QFlat(gfx.vqueue)
         = EmittedFloats(emitted, Len(emitted))
    /\ DrawnCorners(gl.draws, Len(gl.draws))
            \o Corners(QFlat(gfx.vqueue), QFlat(gfx.iqueue))
         = EmittedCorners(emitted, Len(emitted))
    /\ phase = "idle" => gfx.vqueue = EmptyQueue /\ gfx.iqueue = EmptyQueue

\* a finished frame of three primitives in two draw calls, the first of
\* them holding two primitives that differ
C8_Witness ==
    /\ phase = "idle"
    /\ Len(emitted) = 3
    /\ Len(gl.draws) = 2
    /\ gl.draws[1].count = 12
    /\ emitted[1].floats # emitted[2].floats

-----------------------------------------------------------------------------
(* C10: every draw call holds whole primitives only: it ends where a       *)
(* primitive ends, in the vertex data and in the index data alike, and     *)
(* what is queued is the whole of the primitives emitted since.            *)
C10_WholePrimitivesOnly ==
    /\ \A i \in 1..Len(gl.draws) :
        \E m \in 0..Len(emitted) :
            /\ DrawnFloatsTo(gl.draws, i) = FloatsTo(emitted, m)
            /\ DrawnIndicesTo(gl.draws, i) = IndicesTo(emitted, m)
    /\ \E m \in 0..Len(emitted) :
        /\ QLen(gfx.vqueue) = TotalFloats(emitted) - FloatsTo(emitted, m)
        /\ QLen(gfx.iqueue) = TotalIndices(emitted) - IndicesTo(emitted, m)
        /\ DrawnFloatsTo(gl.draws, Len(gl.draws)) = FloatsTo(emitted, m)
        /\ DrawnIndicesTo(gl.draws, Len(gl.draws)) = IndicesTo(emitted, m)

\* a draw call made by a drawRaw call, whose own primitive is queued whole
C10_Witness ==
    /\ phase = "active"
    /\ Len(emitted) = 2
    /\ emitted[2].flushed
    /\ Len(gl.draws) = 1
    /\ QLen(gl.draws[1].vdata) = Len(emitted[1].floats)
    /\ gl.draws[1].count = Len(emitted[1].indices)
    /\ QLen(gfx.vqueue) = Len(emitted[2].floats)
    /\ QLen(gfx.iqueue) = Len(emitted[2].indices)

-----------------------------------------------------------------------------
(* C4: when the geometry of a drawRaw call would take the vertex queue or  *)
(* the index queue past QUEUE_COUNT entries, exactly one draw call is made *)
(* first, of the queues as they were, and when the call returns the        *)
(* queues hold the new geometry alone.                                     *)
C4_FlushOnOverflow ==
    [][ ( /\ EmitStep
          /\ \/ QLen(gfx.vqueue) + Len(Last(emitted').floats) > QUEUE_COUNT
             \/ QLen(gfx.iqueue) + Len(Last(emitted').indices) > QUEUE_COUNT )
        => /\ gfx'.drawCalls = gfx.drawCalls + 1
           /\ Len(gl'.draws) = Len(gl.draws) + 1
           /\ Last(gl'.draws).vdata = gfx.vqueue
           /\ Last(gl'.draws).count = QLen(gfx.iqueue)
           /\ QFlat(gfx'.vqueue) = Last(emitted').floats
           /\ QFlat(gfx'.iqueue) = Last(emitted').indices ]_vars

\* a drawRaw call with the state of the one before it found no room, and
\* its primitive is alone in the queues
C4_Witness ==
    /\ phase = "active"
    /\ Len(emitted) > 1
    /\ ~Fits(Last(emitted))
    /\ SameBatchState(Last(emitted), emitted[Len(emitted) - 1])
    /\ Last(emitted).flushed
    /\ QFlat(gfx.vqueue) = Last(emitted).floats
    /\ QFlat(gfx.iqueue) = Last(emitted).indices

-----------------------------------------------------------------------------
(* C5: the vertex queue and the index queue never hold more than           *)
(* QUEUE_COUNT entries, and no draw call uploads more bytes than the       *)
(* buffers were created with (4 per float, 2 per index).                   *)
C5_QueuesWithinCapacity ==
    /\ QLen(gfx.vqueue) <= QUEUE_COUNT
    /\ QLen(gfx.iqueue) <= QUEUE_COUNT
    /\ \A d \in 1..Len(gl.draws) :
        /\ QLen(gl.draws[d].vdata) * 4 <= gl.vbufSize
        /\ QLen(gl.draws[d].idata) * 2 <= gl.ibufSize

\* a draw call of a vertex queue that had no room for one more quad
C5_Witness ==
    \E d \in 1..Len(gl.draws) :
        /\ QLen(gl.draws[d].vdata) + 4 * STRIDE > QUEUE_COUNT
        /\ QLen(gl.draws[d].vdata) * 4 <= gl.vbufSize

-----------------------------------------------------------------------------
(* C9: when frameEnd has returned, the queues are empty and every          *)
(* primitive of the frame is in the draw call that was to hold it, at the  *)
(* place it was queued at; the draw calls hold nothing else: their vertex  *)
(* data and their index counts add up to what was emitted.                 *)
C9_NothingLost ==
    phase = "idle" =>
        LET vdata == [d \in 1..Len(gl.draws) |-> QFlat(gl.draws[d].vdata)]
        IN  /\ gfx.vqueue = EmptyQueue
            /\ gfx.iqueue = EmptyQueue
            /\ \A k \in 1..Len(emitted) :
                LET e == emitted[k]
                IN  /\ e.batch <= Len(gl.draws)
                    /\ e.base * STRIDE + Len(e.floats)
                            <= QLen(gl.draws[e.batch].vdata)
                    /\ SubSeq(vdata[e.batch], e.base * STRIDE + 1,
                              e.base * STRIDE + Len(e.floats)) = e.floats
            /\ DrawnFloatsTo(gl.draws, Len(gl.draws)) = TotalFloats(emitted)
            /\ DrawnIndicesTo(gl.draws, Len(gl.draws)) = TotalIndices(emitted)

\* a finished frame with a draw call for a change of texture, one for a
\* full queue and one made by frameEnd
C9_Witness ==
    /\ phase = "idle"
    /\ Len(gl.draws) = 3
    /\ gl.draws[1].tex # gl.draws[2].tex
    /\ gl.draws[2].tex = gl.draws[3].tex
    /\ ~Fits(Last(emitted))
    /\ DrawnIndicesTo(gl.draws, 3) = TotalIndices(emitted)

-----------------------------------------------------------------------------
(* C11: flush does nothing when the vertex queue or the index queue is     *)
(* empty, or when no texture or no program is active: no draw call, both   *)
(* queues and the draw-call counter as they were.  Otherwise it makes      *)
(* exactly one indexed draw call that covers the whole index queue, sends  *)
(* the current uniform mapping to the current program, empties both queues *)
(* and adds exactly 1 to the draw-call counter.                            *)

\* what flush does to the world w
FlushContract(w) ==
    LET f == flush(w)
    IN  IF \/ QLen(w.gfx.vqueue) = 0
           \/ QLen(w.gfx.iqueue) = 0
           \/ w.gfx.curTex = Null
           \/ w.gfx.curProg = Null
        THEN /\ f.gl.draws = w.gl.draws
             /\ f.gfx.vqueue = w.gfx.vqueue
             /\ f.gfx.iqueue = w.gfx.iqueue
             /\ f.gfx.drawCalls = w.gfx.drawCalls
        ELSE /\ Len(f.gl.draws) = Len(w.gl.draws) + 1
             /\ SubSeq(f.gl.draws, 1, Len(w.gl.draws)) = w.gl.draws
             /\ Last(f.gl.draws).count = QLen(w.gfx.iqueue)
             /\ QFlat(Last(f.gl.draws).idata) = QFlat(w.gfx.iqueue)
             /\ QFlat(Last(f.gl.draws).vdata) = QFlat(w.gfx.vqueue)
             /\ Last(f.gl.draws).prog = w.gfx.curProg
             /\ Last(f.gl.draws).tex = w.gfx.curTex
             /\ Last(f.gl.draws).uniform = Deref(w.heap, w.gfx.curUniform)
             /\ QLen(f.gfx.vqueue) = 0
             /\ QLen(f.gfx.iqueue) = 0
             /\ f.gfx.drawCalls = w.gfx.drawCalls + 1

C11_FlushContract ==
    /\ FlushContract(World)
    /\ FlushContract([World EXCEPT !.gfx.curTex = Null])
    /\ FlushContract([World EXCEPT !.gfx.curProg = Null])

\* a frame whose frameEnd flushed two queued rectangles in one draw call
C11_Witness ==
    /\ call.op = "frameEnd"
    /\ Len(emitted) = 2
    /\ Len(gl.draws) = 1
    /\ gl.draws[1].count = 12
    /\ gfx.drawCalls = 1
    /\ QLen(gfx.vqueue) = 0

-----------------------------------------------------------------------------
(* C12: frameEnd makes a last flush and then freezes the counter: once     *)
(* frameEnd has returned, both queues are empty and drawCalls() is the     *)
(* number of draw calls made since the matching frameStart set the counter *)
(* to zero.                                                                *)

\* the draw calls frameStart made between gl.clear and the counter reset:
\* the one its background quad may have caused
DrawsBeforeReset ==
    IF /\ emitted # <<>>
       /\ emitted[1].tex = gfx.bgTex
       /\ emitted[1].flushed
    THEN 1 ELSE 0

C12_FrameEndFreezesCount ==
    call.op \in {"frameEnd", "gfxInit"} =>
        /\ QLen(gfx.vqueue) = 0
        /\ QLen(gfx.iqueue) = 0
        /\ drawCalls(World) = Len(gl.draws) - DrawsBeforeReset

\* a frame of the checker background and one rectangle: two draw calls
C12_Witness ==
    /\ call.op = "frameEnd"
    /\ frames = 2
    /\ Len(emitted) = 2
    /\ Len(gl.draws) = 2
    /\ drawCalls(World) = 2

-----------------------------------------------------------------------------
(* C13: the draw-call count reported for a frame in which no drawing       *)
(* operation was made is 0; for a frame with exactly one flush-worthy      *)
(* batch it is exactly 1, plus 1 if frameStart drew the checker background *)
(* (no clearColor configured).                                             *)

\* the draw calls of frameStart's own background quad
BackgroundDraws == IF Has(gconf, "clearColor") THEN 0 ELSE 1

\* the drawRaw calls of the frame that came from the caller's operations
CallerEmits == {k \in 1..Len(emitted) : emitted[k].tex # gfx.bgTex}

\* the caller's drawRaw calls of the frame make up exactly one batch
OneCallerBatch ==
    /\ CallerEmits # {}
    /\ \A i, j \in CallerEmits :
        /\ SameBatchState(emitted[i], emitted[j])
        /\ Fits(emitted[i])

\* as stated
C13_EmptyFrameCountsZero ==
    call.op \in {"frameEnd", "gfxInit"} =>
        /\ CallerEmits = {} => drawCalls(World) = 0
        /\ OneCallerBatch => drawCalls(World) = 1 + BackgroundDraws

\* amended: the background's draw call counts in the empty frame too
C13_FrameCount ==
    call.op \in {"frameEnd", "gfxInit"} =>
        /\ CallerEmits = {} => drawCalls(World) = BackgroundDraws
        /\ OneCallerBatch => drawCalls(World) = 1 + BackgroundDraws

\* an empty second frame on the checker background, reported as 1
C13_Witness ==
    /\ call.op = "frameEnd"
    /\ frames = 2
    /\ ~Has(gconf, "clearColor")
    /\ CallerEmits = {}
    /\ drawCalls(World) = 1

-----------------------------------------------------------------------------
(* C14: drawCalls() reports the last completed frame: the value it returns *)
(* changes only in frameEnd.  No drawing operation, flush, transform       *)
(* operation or frameStart made while a frame is active changes it, even   *)
(* though the internal counter is reset and incremented meanwhile.         *)
C14_ReportChangesOnlyInFrameEnd ==
    [][ /\ drawCalls(World)' # drawCalls(World) => call'.op = "frameEnd"
        /\ drawCalls(flush(World)) = drawCalls(World)
        /\ drawCalls(frameStart(World)) = drawCalls(World) ]_vars

\* the second frame, after its first rectangle made frameStart's background
\* be drawn: the counter was reset and is at 1, the report is still 2
C14_Witness ==
    /\ call.op = "drawRect"
    /\ frames = 2
    /\ gfx.drawCalls = 1
    /\ drawCalls(World) = 2

-----------------------------------------------------------------------------
(* C15: once frameStart has returned, whatever the frame before left       *)
(* behind (pushTransform calls never popped, a matrix installed with       *)
(* pushMatrix), the internal draw-call counter is 0, the transform stack   *)
(* is empty and the active transform is the identity matrix.               *)

\* the world w is as frameStart leaves it
FrameReset(w) ==
    /\ w.gfx.drawCalls = 0
    /\ w.gfx.transformStack = <<>>
    /\ w.gfx.transform = mat4

C15_FrameStartResets ==
    /\ call.op = "frameStart" => FrameReset(World)
    /\ FrameReset(frameStart(World))

\* frameStart has returned; its background quad carries the matrix that the
\* frame before had left active, and nothing of that frame is left now
C15_Witness ==
    /\ call.op = "frameStart"
    /\ frames = 2
    /\ emitted # <<>>
    /\ emitted[1].floats # frameStart(World).emitted[1].floats
    /\ FrameReset(World)

-----------------------------------------------------------------------------
(* C16: for every translation v and every active transform T, the calls    *)
(* pushTransform(); translate(v); popTransform() leave the active          *)
(* transform equal to T and the transform stack equal to what it was       *)
(* before the push; a later change of the active transform never alters a  *)
(* matrix already saved on the stack.                                      *)

\* the translations tried: none, whole pixels, half pixels
Translations ==
    { vec2(R(0), R(0)), vec2(R(5), R(-3)), vec2(R(0), R(7)),
      vec2(<<1, 2>>, <<-7, 2>>) }

C16_PushTranslatePopRestores ==
    [][ /\ \A v \in Translations :
            LET w1 == pushTransform(World)
                w2 == pushTranslate(w1, v)
                w3 == popTransform(w2)
            IN  /\ w1.gfx.transformStack =
                        Append(gfx.transformStack, gfx.transform)
                /\ w2.gfx.transformStack = w1.gfx.transformStack
                /\ w3.gfx.transform = gfx.transform
                /\ w3.gfx.transformStack = gfx.transformStack
        /\ call'.op = "drawRect" =>
                /\ gfx'.transform = gfx.transform
                /\ gfx'.transformStack = gfx.transformStack
        /\ call'.op = "pushMatrix" =>
                gfx'.transformStack = gfx.transformStack
        /\ call'.op = "pushTransform" =>
                gfx'.transformStack =
                    Append(gfx.transformStack, gfx.transform) ]_vars

\* a rectangle drawn away from the origin (drawQuad pushes, translates and
\* pops) under a matrix installed after the one before it was saved
C16_Witness ==
    /\ call.op = "drawRect"
    /\ call.pos # vec2(R(0), R(0))
    /\ Len(gfx.transformStack) = 1
    /\ gfx.transform \in Matrices
    /\ gfx.transform # gfx.transformStack[1]

-----------------------------------------------------------------------------
(* C17: popTransform called when the transform stack is empty does not     *)
(* raise: it leaves the active transform and the (empty) stack as they     *)
(* were and changes nothing else in the renderer.                          *)
C17_PopOnEmptyStackIsNoOp ==
    [][ /\ gfx.transformStack = <<>> => popTransform(World) = World
        /\ (call'.op = "popTransform" /\ gfx.transformStack = <<>>) =>
                /\ gfx'.transform = gfx.transform
                /\ gfx'.transformStack = <<>>
                /\ UNCHANGED <<gfx, gl, gconf, heap, emitted>> ]_vars

\* popTransform has run on an empty stack, under a matrix of the caller and
\* with a rectangle in the queue
C17_Witness ==
    /\ call.op = "popTransform"
    /\ call.depth = 0
    /\ gfx.transformStack = <<>>
    /\ gfx.transform \in Matrices
    /\ QLen(gfx.vqueue) > 0

-----------------------------------------------------------------------------
(* C18: drawQuad with anchor "center", width 10, height 10, rotation 0, at *)
(* position (0,0), under the identity transform in a 100x100 viewport,     *)
(* emits four vertices whose NDC coordinates form a square centred at the  *)
(* NDC origin (0,0) with half-extent 0.1 in both axes.                     *)

\* the NDC positions of the vertices in the floats of one drawRaw call
NdcPositions(floats) ==
    [k \in 1..(Len(floats) \div STRIDE) |->
        << floats[(k - 1) * STRIDE + 1], floats[(k - 1) * STRIDE + 2] >>]

\* the corners of the square of half-extent e around (cx, cy)
SquareCorners(cx, cy, e) ==
    { << RAdd(cx, sx), RAdd(cy, sy) >> : sx \in {e, RNeg(e)},
                                         sy \in {e, RNeg(e)} }

\* the quad of the claim has just been drawn (drawRect hands its
\* arguments to drawQuad, rotation 0 being drawQuad's default)
CentredQuadDrawn ==
    /\ call.op = "drawRect"
    /\ call.pos = vec2(R(0), R(0))
    /\ call.w = R(10)
    /\ call.h = R(10)
    /\ Has(call.conf, "origin")
    /\ call.conf.origin = "center"
    /\ gfx.transform = mat4
    /\ width(World) = R(100)
    /\ height(World) = R(100)

\* the four emitted vertices are the corners of the square around (cx, cy)
EmittedSquare(cx, cy, e) ==
    LET ps == NdcPositions(Last(emitted).floats)
    IN  /\ Len(ps) = 4
        /\ {ps[k] : k \in 1..4} = SquareCorners(cx, cy, e)
        /\ Cardinality({ps[k] : k \in 1..4}) = 4

\* as stated
C18_QuadAroundNdcOrigin ==
    CentredQuadDrawn => EmittedSquare(R(0), R(0), <<1, 10>>)

\* amended: position (0,0) is the top-left corner of the viewport, which is
\* the NDC point (-1, 1)
C18_QuadAroundTopLeft ==
    CentredQuadDrawn => EmittedSquare(R(-1), R(1), <<1, 10>>)

C18_Witness ==
    /\ CentredQuadDrawn
    /\ NdcPositions(Last(emitted).floats)[1] = << <<-11, 10>>, <<9, 10>> >>

-----------------------------------------------------------------------------
(* C19: drawRectStroke makes exactly four drawLine calls, one per edge of  *)
(* the rectangle, in the fixed order top edge, right edge, bottom edge,    *)
(* left edge (screen space, Y growing downward), each line starting where  *)
(* the one before ended, so that the four segments close the outline, and  *)
(* each giving an emitted quad of its own.                                 *)

\* the rectangle outlined by drawRectStroke(pos, w, h, conf): the anchor
\* point of the rectangle is at pos
StrokeLeft(c) ==
    LET o == originPt(IF Has(c.conf, "origin") THEN c.conf.origin
                      ELSE DEF_ORIGIN)
    IN  RSub(c.pos.x, RDiv(RMul(RAdd(o.x, R(1)), c.w), R(2)))
StrokeTop(c) ==
    LET o == originPt(IF Has(c.conf, "origin") THEN c.conf.origin
                      ELSE DEF_ORIGIN)
    IN  RSub(c.pos.y, RDiv(RMul(RAdd(o.y, R(1)), c.h), R(2)))
StrokeRight(c) == RAdd(StrokeLeft(c), c.w)
StrokeBottom(c) == RAdd(StrokeTop(c), c.h)

\* the two ends of each edge; Y grows downward, so the top edge has the
\* smaller y
TopEdge(c) == { vec2(StrokeLeft(c), StrokeTop(c)),
                vec2(StrokeRight(c), StrokeTop(c)) }
RightEdge(c) == { vec2(StrokeRight(c), StrokeTop(c)),
                  vec2(StrokeRight(c), StrokeBottom(c)) }
BottomEdge(c) == { vec2(StrokeLeft(c), StrokeBottom(c)),
                   vec2(StrokeRight(c), StrokeBottom(c)) }
LeftEdge(c) == { vec2(StrokeLeft(c), StrokeTop(c)),
                 vec2(StrokeLeft(c), StrokeBottom(c)) }

\* the NDC corners of the quad that covers the segment from a to b with
\* stroke width sw
SegmentQuad(w, a, b, sw) ==
    LET hs == RDiv(sw, R(2))
    IN  IF a.x = b.x
        THEN { << toNDC(w, vec2(RAdd(a.x, sx), y)).x,
                  toNDC(w, vec2(RAdd(a.x, sx), y)).y >> :
                    sx \in {hs, RNeg(hs)}, y \in {a.y, b.y} }
        ELSE { << toNDC(w, vec2(x, RAdd(a.y, sy))).x,
                  toNDC(w, vec2(x, RAdd(a.y, sy))).y >> :
                    x \in {a.x, b.x}, sy \in {hs, RNeg(hs)} }

\* the step is a drawRectStroke call: four drawLine calls were made, each
\* line starts where the one before ended and the last ends where the first
\* started, and each line gave one drawRaw call of the quad that covers it
StrokeStep(ls) ==
    LET c == call'
        sw == IF Has(c.conf, "width") THEN c.conf.width ELSE R(1)
    IN  /\ Len(ls) = 4
        /\ \A k \in 1..3 : ls[k + 1][1] = ls[k][2]
        /\ ls[4][2] = ls[1][1]
        /\ Len(emitted') = Len(emitted) + 4
        /\ \A k \in 1..4 :
            LET ps == NdcPositions(emitted'[Len(emitted) + k].floats)
            IN  /\ Len(ps) = 4
                /\ {ps[n] : n \in 1..4} =
                        SegmentQuad(World, ls[k][1], ls[k][2], sw)

\* as stated
C19_StrokeTopRightBottomLeft ==
    [][ call'.op = "drawRectStroke" =>
            LET c == call'
                ls == StrokeLines(c.pos, c.w, c.h, c.conf)
            IN  /\ StrokeStep(ls)
                /\ {ls[1][1], ls[1][2]} = TopEdge(c)
                /\ {ls[2][1], ls[2][2]} = RightEdge(c)
                /\ {ls[3][1], ls[3][2]} = BottomEdge(c)
                /\ {ls[4][1], ls[4][2]} = LeftEdge(c) ]_vars

\* amended: the order is left, bottom, right, top
C19_StrokeLeftBottomRightTop ==
    [][ call'.op = "drawRectStroke" =>
            LET c == call'
                ls == StrokeLines(c.pos, c.w, c.h, c.conf)
            IN  /\ StrokeStep(ls)
                /\ {ls[1][1], ls[1][2]} = LeftEdge(c)
                /\ {ls[2][1], ls[2][2]} = BottomEdge(c)
                /\ {ls[3][1], ls[3][2]} = RightEdge(c)
                /\ {ls[4][1], ls[4][2]} = TopEdge(c) ]_vars

\* the outline of the 40x10 rectangle at (20, 30): its first quad is the
\* left edge, from (20, 30) down to (20, 40), one pixel wide
C19_Witness ==
    /\ call.op = "drawRectStroke"
    /\ call.pos = vec2(R(20), R(30))
    /\ call.conf = NoConf
    /\ Len(emitted) >= 4
    /\ LET ps == NdcPositions(emitted[Len(emitted) - 3].floats)
       IN  {ps[n] : n \in 1..4} =
                { << <<-61, 100>>, <<2, 5>> >>, << <<-59, 100>>, <<2, 5>> >>,
                  << <<-61, 100>>, <<1, 5>> >>, << <<-59, 100>>, <<1, 5>> >> }

-----------------------------------------------------------------------------
(* C20: fmtText on a string of two characters that both have a glyph in    *)
(* the font returns exactly 2 glyph entries, in the order of the input,    *)
(* with strictly increasing x; on two such characters with a line break    *)
(* between them it lays them out on 2 lines and returns a height of 2      *)
(* times the line height.  For every input and every wrap width the        *)
(* height returned is the number of lines times the line height.           *)

\* the lines fmtText breaks the text of the call c into
LinesOf(c) ==
    LET cell == GlyphCell(c.font, c.conf)
    IN  fmtLoop(c.text, Len(c.text), cell.cw, cell.ch, c.conf).flines

C20_TextLayout ==
    call.op = "fmtText" =>
        LET text == call.text
            r == call.ret
            lh == GlyphCell(call.font, call.conf).ch
            HasGlyph(k) == text[k] \in DOMAIN call.font.map
        IN  /\ (Len(text) = 2 /\ HasGlyph(1) /\ HasGlyph(2)
                    /\ ~Wraps(call.conf)) =>
                /\ Len(r.chars) = 2
                /\ r.chars[1].ch = text[1]
                /\ r.chars[2].ch = text[2]
                /\ ~RLeq(r.chars[2].pos.x, r.chars[1].pos.x)
            /\ (Len(text) = 3 /\ HasGlyph(1) /\ text[2] = NewLine
                    /\ HasGlyph(3) /\ ~Wraps(call.conf)) =>
                /\ LinesOf(call) = << <<text[1]>>, <<text[3]>> >>
                /\ Len(r.chars) = 2
                /\ r.chars[1].ch = text[1]
                /\ r.chars[2].ch = text[3]
                /\ r.chars[2].pos.y = RAdd(r.chars[1].pos.y, lh)
                /\ r.height = RMul(R(2), lh)
            /\ r.height = RMul(R(Len(LinesOf(call))), lh)
            /\ ~Wraps(call.conf) =>
                Len(LinesOf(call)) =
                    1 + Cardinality({k \in 1..Len(text) : text[k] = NewLine})

\* "a\nb" with the default configuration: two glyphs (placed by their
\* centres), the second one line (2 pixels) below the first, height 4
C20_Witness ==
    /\ call.op = "fmtText"
    /\ call.text = <<"a", NewLine, "b">>
    /\ call.conf = NoConf
    /\ Len(call.ret.chars) = 2
    /\ call.ret.chars[1].pos = vec2(R(1), R(1))
    /\ call.ret.chars[2].pos = vec2(R(1), R(3))
    /\ call.ret.height = R(4)
    /\ call.ret.width = R(2)

-----------------------------------------------------------------------------
(* C21: fmtText passes over the characters that have no glyph in the       *)
(* font's character map without raising: the glyph list has exactly one    *)
(* entry for each input character that is mapped and is not a line break,  *)
(* in input order.  A character without a glyph still moves the cursor, so *)
(* the measured width counts it: "az" with no glyph for z gives 1 entry    *)
(* and the width of 2 glyph cells.                                         *)

\* the text cut at its line breaks: the runs of characters between them
RECURSIVE SplitLines(_)
SplitLines(text) ==
    IF \A k \in 1..Len(text) : text[k] # NewLine THEN <<text>>
    ELSE LET n == CHOOSE k \in 1..Len(text) :
                    /\ text[k] = NewLine
                    /\ \A j \in 1..(k - 1) : text[j] # NewLine
         IN  <<SubSeq(text, 1, n - 1)>>
                \o SplitLines(SubSeq(text, n + 1, Len(text)))

\* the length of the longest run of characters between line breaks
LongestRun(text) ==
    LET runs == SplitLines(text)
    IN  CHOOSE n \in {Len(runs[k]) : k \in 1..Len(runs)} :
            \A k \in 1..Len(runs) : Len(runs[k]) <= n

C21_UnmappedSkipped ==
    call.op = "fmtText" =>
        LET text == call.text
            r == call.ret
            cw == GlyphCell(call.font, call.conf).cw
            Drawn(c) == c # NewLine /\ c \in DOMAIN call.font.map
        IN  /\ [k \in 1..Len(r.chars) |-> r.chars[k].ch] =
                    SelectSeq(text, Drawn)
            /\ \A k \in 1..Len(r.chars) : r.chars[k].quad # Absent
            /\ ~Wraps(call.conf) =>
                    r.width = RMul(R(LongestRun(text)), cw)
            /\ (text = <<"a", "z">> /\ ~Wraps(call.conf)) =>
                    /\ Len(r.chars) = 1
                    /\ r.chars[1].ch = "a"
                    /\ r.width = RMul(R(2), cw)

\* "az" with the default configuration: one glyph, width 4 (two cells of 2)
C21_Witness ==
    /\ call.op = "fmtText"
    /\ call.text = <<"a", "z">>
    /\ call.conf = NoConf
    /\ "z" \notin DOMAIN call.font.map
    /\ Len(call.ret.chars) = 1
    /\ call.ret.width = R(4)

-----------------------------------------------------------------------------
(* C22: makeFont hands the cells of the atlas grid to the characters of    *)
(* the character-set string in input order, left to right and then top to  *)
(* bottom: with cols = texture width / glyph width and rows = texture      *)
(* height / glyph height, the character at index i (from 0) has the cell   *)
(* of column i mod cols and row floor(i / cols), whose origin in texture   *)
(* space is (column / cols, row / rows).                                   *)

\* a character set: no character written twice
IsCharset(chars) ==
    \A i, j \in 1..Len(chars) : chars[i] = chars[j] => i = j

C22_MakeFontRowMajor ==
    (call.op = "makeFont" /\ IsCharset(call.chars)) =>
        LET cols == TexWidth(call.tex) \div call.gw
            rows == TexHeight(call.tex) \div call.gh
            font == call.ret
            Column(i) == i % cols
            Row(i) == i \div cols
        IN  /\ cols * call.gw = TexWidth(call.tex)
            /\ rows * call.gh = TexHeight(call.tex)
            /\ DOMAIN font.map = {call.chars[k] : k \in 1..Len(call.chars)}
            /\ \A i \in 0..(Len(call.chars) - 1) :
                    font.map[call.chars[i + 1]] =
                        vec2(RDiv(R(Column(i)), R(cols)),
                             RDiv(R(Row(i)), R(rows)))
            \* left to right, then top to bottom
            /\ \A i \in 0..(Len(call.chars) - 2) :
                    \/ Row(i + 1) = Row(i) /\ Column(i + 1) = Column(i) + 1
                    \/ Row(i + 1) = Row(i) + 1 /\ Column(i + 1) = 0
                                               /\ Column(i) = cols - 1

\* "abz" with 2x1 glyphs on the 4x2 texture: two columns, two rows, z is
\* the first cell of the second row
C22_Witness ==
    /\ call.op = "makeFont"
    /\ call.chars = <<"a", "b", "z">>
    /\ call.gw = 2
    /\ call.gh = 1
    /\ call.ret.map["a"] = vec2(R(0), R(0))
    /\ call.ret.map["b"] = vec2(RDiv(R(1), R(2)), R(0))
    /\ call.ret.map["z"] = vec2(R(0), RDiv(R(1), R(2)))

-----------------------------------------------------------------------------
(* C23: the draw calls made for a frame are as many as the maximal runs of *)
(* consecutive drawRaw calls with the same texture, the same program and   *)
(* deeply equal uniform sets, when no run overflows the queues: two        *)
(* consecutive calls with the same state are never separated by a flush,   *)
(* and calls are not reordered to join runs that are not adjacent (the     *)
(* states A, B, A make three draw calls).                                  *)

\* the maximal runs of consecutive drawRaw calls of one state in a log
Runs(log) ==
    IF log = <<>> THEN 0
    ELSE 1 + Cardinality({k \in 2..Len(log) :
                            ~SameBatchState(log[k - 1], log[k])})

C23_DrawCallsAreRuns ==
    (\A k \in 1..Len(emitted) : Fits(emitted[k])) =>
        /\ \A k \in 2..Len(emitted) :
                SameBatchState(emitted[k - 1], emitted[k])
                    => ~emitted[k].flushed
        /\ phase = "idle" =>
                /\ Len(gl.draws) = Runs(emitted)
                /\ drawCalls(World) = Runs(emitted)

-----------------------------------------------------------------------------
(* C26: the uniform set that flush uploads for a batch is equal in value   *)
(* to the uniform set each drawRaw call of the batch was given, as it was  *)
(* at the time of that call, also when the caller passes one mapping       *)
(* object again and changes it between two calls.                          *)
C26_UploadedUniformIsEmitted ==
    \A k \in 1..Len(emitted) :
        emitted[k].batch \in 1..Len(gl.draws)
            => deepEq(gl.draws[emitted[k].batch].uniform, emitted[k].uniform)

-----------------------------------------------------------------------------
(* C24: no geometry of a frame is transformed by a matrix the frame before *)
(* left behind.  The checker background quad that frameStart draws when no *)
(* clearColor is configured is drawn under the identity transform and so   *)
(* covers the whole viewport, whatever active transform and transform      *)
(* stack the frame before left.                                            *)

\* the corners of the viewport in NDC
ViewportCorners ==
    { <<R(-1), R(-1)>>, <<R(-1), R(1)>>, <<R(1), R(-1)>>, <<R(1), R(1)>> }

C24_BackgroundCoversViewport ==
    (call.op = "frameStart" /\ ~Has(gconf, "clearColor")) =>
        LET bg == NdcPositions(emitted[1].floats)
        IN  /\ emitted[1].tex = gfx.bgTex
            /\ Len(bg) = 4
            /\ {bg[k] : k \in 1..4} = ViewportCorners

-----------------------------------------------------------------------------
(* C25: every public drawing operation (drawTexture, drawRect,             *)
(* drawRectStroke, drawLine, drawText, drawFmtText, and the drawQuad they  *)
(* all go through) leaves the active transform and the transform stack as  *)
(* they were before the call, for every stack it starts from, the empty    *)
(* one included: its pushTransform and popTransform calls are balanced.    *)

DrawOps == {"drawTexture", "drawRect", "drawRectStroke", "drawLine",
            "drawText", "drawFmtText"}

\* every step that is a drawing operation keeps both, and so would the
\* outline of a rectangle drawn now
C25_DrawingKeepsTransform ==
    [][ /\ call'.op \in DrawOps =>
            /\ gfx'.transform = gfx.transform
            /\ gfx'.transformStack = gfx.transformStack
        /\ \A a \in StrokeRects :
            LET w == drawRectStroke(World, a[1], a[2], a[3], NoConf)
            IN  /\ w.gfx.transform = gfx.transform
                /\ w.gfx.transformStack = gfx.transformStack
                /\ Len(w.emitted) = Len(emitted) + 4 ]_vars

\* the text "ab", drawn under the matrix installed with pushMatrix and with
\* a matrix saved on the stack: two glyphs went through drawQuad and both
\* are as they were
C25_Witness ==
    /\ call.op = "drawText"
    /\ call.text = <<"a", "b">>
    /\ Len(emitted) >= 2
    /\ gfx.transform \in Matrices
    /\ gfx.transformStack = <<mat4>>

-----------------------------------------------------------------------------
(* C27: for rotation 0, drawQuad places the quad by translate(position),   *)
(* then scale, then translate(anchor offset), the anchor offset being      *)
(* anchor * (w, h) * -0.5: the corner with the local coordinates c, one of *)
(* (+-w/2, +-h/2), is at the active transform applied to                   *)
(* position + scale * (c + offset) before the conversion to NDC.  With the *)
(* default "topleft" anchor under the identity transform the quad spans    *)
(* from position to position + scale * (w, h); with "center" it is centred *)
(* on position.                                                            *)

\* the anchor, the scale and the anchor offset of the drawRect call c
QuadAnchor(c) ==
    originPt(IF Has(c.conf, "origin") THEN c.conf.origin ELSE DEF_ORIGIN)
QuadScale(c) ==
    IF Has(c.conf, "scale") THEN c.conf.scale ELSE vec2(R(1), R(1))
QuadOffset(c) ==
    Vec2ScaleN(Vec2Scale(QuadAnchor(c), vec2(c.w, c.h)), <<-1, 2>>)

\* the local corners, in the order drawQuad hands them to drawRaw
LocalCorners(c) ==
    LET hw == RDiv(c.w, R(2))
        hh == RDiv(c.h, R(2))
    IN  << vec2(RNeg(hw), hh), vec2(RNeg(hw), RNeg(hh)),
           vec2(hw, RNeg(hh)), vec2(hw, hh) >>

\* the place of the local corner p of the call c, before the active
\* transform
Placed(c, p) ==
    Vec2Add(c.pos, Vec2Scale(QuadScale(c), Vec2Add(p, QuadOffset(c))))

\* the NDC position of the pixel p
Ndc(p) == << toNDC(World, p).x, toNDC(World, p).y >>

C27_QuadPlacement ==
    (call.op = "drawRect" /\ ~Has(call.conf, "rot")) =>
        LET c == call
            ps == NdcPositions(Last(emitted).floats)
            far == Vec2Add(c.pos, Vec2Scale(QuadScale(c), vec2(c.w, c.h)))
            half == Vec2ScaleN(Vec2Scale(QuadScale(c), vec2(c.w, c.h)),
                               <<1, 2>>)
        IN  /\ Len(ps) = 4
            /\ \A k \in 1..4 :
                ps[k] = Ndc(Mat4MultVec2(gfx.transform,
                                         Placed(c, LocalCorners(c)[k])))
            /\ (gfx.transform = mat4 /\ QuadAnchor(c) = originPt("topleft"))
                => {ps[k] : k \in 1..4} =
                     { Ndc(vec2(x, y)) : x \in {c.pos.x, far.x},
                                         y \in {c.pos.y, far.y} }
            /\ (gfx.transform = mat4 /\ QuadAnchor(c) = originPt("center"))
                => {ps[k] : k \in 1..4} =
                     { Ndc(vec2(x, y)) :
                         x \in {RSub(c.pos.x, half.x), RAdd(c.pos.x, half.x)},
                         y \in {RSub(c.pos.y, half.y), RAdd(c.pos.y, half.y)} }

\* the 4x6 rectangle at (10, 20), anchor "botright", scaled by (2, 3),
\* under the matrix installed with pushMatrix
C27_Witness ==
    /\ call.op = "drawRect"
    /\ Has(call.conf, "scale")
    /\ Has(call.conf, "origin")
    /\ call.conf.origin = "botright"
    /\ gfx.transform \in Matrices
    /\ Placed(call, LocalCorners(call)[2]) = vec2(R(2), R(2))

-----------------------------------------------------------------------------
(* C28: for every position, width, height and each of the nine named       *)
(* anchors (no scale, no rotation), the four corner points drawRectStroke  *)
(* connects are the four corners of the rectangle drawRect fills for the   *)
(* same position, width, height and anchor.                                *)

\* the NDC positions of the corners of the rectangle drawRect fills when
\* called now with the arguments of the call c
FilledCorners(c) ==
    LET ps == NdcPositions(
                Last(drawRect(World, c.pos, c.w, c.h, c.conf).emitted).floats)
    IN  {ps[k] : k \in 1..Len(ps)}

\* the middle of the NDC positions of one drawRaw call of four vertices
QuadMiddle(floats) ==
    LET ps == NdcPositions(floats)
    IN  << RDiv(RAdd(RAdd(ps[1][1], ps[2][1]), RAdd(ps[3][1], ps[4][1])),
                R(4)),
           RDiv(RAdd(RAdd(ps[1][2], ps[2][2]), RAdd(ps[3][2], ps[4][2])),
                R(4)) >>

\* the step is a drawRectStroke call: the lines go round the corners, and
\* each gave one drawRaw call of a quad around the middle of its line
C28_StrokeCornersAreRectCorners ==
    [][ call'.op = "drawRectStroke" =>
            LET c == call'
                ls == StrokeLines(c.pos, c.w, c.h, c.conf)
            IN  /\ \A k \in 1..3 : ls[k + 1][1] = ls[k][2]
                /\ ls[4][2] = ls[1][1]
                /\ Len(emitted') = Len(emitted) + 4
                /\ \A k \in 1..4 :
                    QuadMiddle(emitted'[Len(emitted) + k].floats) =
                        Ndc(Mat4MultVec2(gfx.transform,
                            Vec2ScaleN(Vec2Add(ls[k][1], ls[k][2]),
                                       <<1, 2>>)))
                /\ Cardinality(FilledCorners(c)) = 4
                /\ { Ndc(Mat4MultVec2(gfx.transform, ls[k][1])) : k \in 1..4 }
                        = FilledCorners(c) ]_vars

\* the outline of the 40x10 rectangle at (20, 30) by its bottom right
\* corner, under the identity: the first line starts at (-20, 20)
C28_Witness ==
    /\ call.op = "drawRectStroke"
    /\ Has(call.conf, "origin")
    /\ call.conf.origin = "botright"
    /\ gfx.transform = mat4
    /\ StrokeLines(call.pos, call.w, call.h, call.conf)[1][1]
            = vec2(R(-20), R(20))
    /\ << <<-7, 5>>, <<3, 5>> >> \in FilledCorners(call)

-----------------------------------------------------------------------------
(* C29: when a wrap width is configured for fmtText and it is at least one *)
(* glyph width, no line is wider than the wrap width (its length times the *)
(* glyph width is at most the wrap width), and a line is empty only where  *)
(* line breaks leave nothing between them: the wrap makes no empty line.   *)
(* The width fmtText reports is the maximum line width reached.            *)

\* the wrap width of the call c is configured and is at least a glyph wide
WrapsAtLeastOneGlyph(c) ==
    /\ Wraps(c.conf)
    /\ RLeq(GlyphCell(c.font, c.conf).cw, c.conf.width)

\* the width of the widest line of the call c
MaxLineWidth(c) ==
    LET lines == LinesOf(c)
        n == CHOOSE m \in {Len(lines[k]) : k \in 1..Len(lines)} :
                \A k \in 1..Len(lines) : Len(lines[k]) <= m
    IN  RMul(R(n), GlyphCell(c.font, c.conf).cw)

\* the runs between line breaks that are empty
EmptyRuns(text) ==
    {k \in 1..Len(SplitLines(text)) : SplitLines(text)[k] = <<>>}

\* no line wider than the wrap width; as many empty lines as empty runs
\* between line breaks, and each line break starts a line
WrappedLines(c) ==
    LET lines == LinesOf(c)
        cw == GlyphCell(c.font, c.conf).cw
    IN  /\ \A k \in 1..Len(lines) :
                RLeq(RMul(R(Len(lines[k])), cw), c.conf.width)
        /\ Cardinality({k \in 1..Len(lines) : lines[k] = <<>>})
                = Cardinality(EmptyRuns(c.text))
        /\ Flat(lines) = Flat(SplitLines(c.text))

\* as stated
C29_WidthIsMaxLineWidth ==
    (call.op = "fmtText" /\ WrapsAtLeastOneGlyph(call)) =>
        /\ WrappedLines(call)
        /\ call.ret.width = MaxLineWidth(call)

\* amended: the width reported is the wrap width, which no line exceeds
C29_WidthIsWrapWidth ==
    (call.op = "fmtText" /\ WrapsAtLeastOneGlyph(call)) =>
        /\ WrappedLines(call)
        /\ call.ret.width = call.conf.width
        /\ RLeq(MaxLineWidth(call), call.ret.width)

\* "aba" wrapped at 5 with glyphs 2 wide: the lines "ab" and "a", the
\* widest 4 wide, and a width of 5
C29_Witness ==
    /\ call.op = "fmtText"
    /\ call.text = <<"a", "b", "a">>
    /\ call.conf = [width |-> R(5)]
    /\ LinesOf(call) = << <<"a", "b">>, <<"a">> >>
    /\ MaxLineWidth(call) = R(4)
    /\ call.ret.width = R(5)

-----------------------------------------------------------------------------
(* C30: the fast paths of the transform operations change nothing:         *)
(* translate with the zero vector, scale with the unit vector (1, 1) and   *)
(* rotateX, rotateY, rotateZ with the angle 0 leave the active transform   *)
(* and the transform stack as they are (and so does the multiplication     *)
(* they skip).  pushMatrix(m) makes a copy of m the active transform,      *)
(* whatever it was, and leaves the stack alone.                            *)

\* the world w has the transform and the stack of the current state
SameTransforms(w) ==
    /\ w.gfx.transform = gfx.transform
    /\ w.gfx.transformStack = gfx.transformStack

C30_FastPathsChangeNothing ==
    [][ /\ SameTransforms(pushTranslate(World, vec2(R(0), R(0))))
        /\ SameTransforms(pushScale(World, vec2(R(1), R(1))))
        /\ SameTransforms(pushRotateX(World, 0))
        /\ SameTransforms(pushRotateY(World, 0))
        /\ SameTransforms(pushRotateZ(World, 0))
        /\ Mat4Translate(gfx.transform, vec2(R(0), R(0))) = gfx.transform
        /\ Mat4Scale(gfx.transform, vec2(R(1), R(1))) = gfx.transform
        /\ Mat4RotateX(gfx.transform, 0) = gfx.transform
        /\ Mat4RotateY(gfx.transform, 0) = gfx.transform
        /\ Mat4RotateZ(gfx.transform, 0) = gfx.transform
        /\ call'.op = "pushMatrix" =>
                /\ gfx' = [gfx EXCEPT !.transform = call'.m]
                /\ gl' = gl
                /\ emitted' = emitted ]_vars

\* pushMatrix has installed its matrix over a saved identity; the fast
\* paths leave both in place
C30_Witness ==
    /\ call.op = "pushMatrix"
    /\ gfx.transform = call.m
    /\ gfx.transform # mat4
    /\ gfx.transformStack = <<mat4>>
    /\ pushTranslate(World, vec2(R(0), R(0))) = World
    /\ pushScale(World, vec2(R(1), R(1))) = World
    /\ pushRotateX(World, 0) = World
    /\ pushRotateY(World, 0) = World
    /\ pushRotateZ(World, 0) = World

====
